---- MODULE Spec2Model ----
(***************************************************************************)
(* Transcoding job lifecycle of wagtailmedia: the submission path          *)
(* (signal_handlers.transcode_video) and the webhook ingestion path        *)
(* (views.aws_webhooks.AWSTranscodingWebhookView).                         *)
(*                                                                         *)
(* Python strings are tuples of one-character strings, so that upper(),    *)
(* split() and the ASCII test of hmac.compare_digest are computed.         *)
(* JSON values are tagged records: [null], [str], [num], [list], [obj].    *)
(* An optional value (None or x) is the set {} or {x}.                     *)
(***************************************************************************)
EXTENDS Integers, Sequences, FiniteSets, TLC

\* ------------------------------------------------------------------ bounds
\* Number of job rows ever created (primary keys handed out).
MaxJobs == 2
\* Number of writes one job row can receive (updated_at counts them).
MaxUpdatedAt == 4
\* Number of callbacks one transaction registers with on_commit.
MaxOnCommit == 2
\* Longest duration, in milliseconds, of the contiguous range of durations.
MaxDurationMs == 130
\* Number of get_role requests IAM receives.
MaxGetRole == 3

\* ------------------------------------------------------------ JSON values
JNull == [null |-> TRUE]
JStr(s) == [str |-> s]
JNum(n) == [num |-> n]
JList(l) == [list |-> l]
JObj(o) == [obj |-> o]

IsNull(v) == DOMAIN v = {"null"}
IsStr(v) == DOMAIN v = {"str"}
IsNum(v) == DOMAIN v = {"num"}
IsList(v) == DOMAIN v = {"list"}
IsObj(v) == DOMAIN v = {"obj"}

\* Python truthiness of a JSON value: None, "", 0, [] and {} are falsy.
Truthy(v) ==
  IF IsNull(v) THEN FALSE
  ELSE IF IsStr(v) THEN Len(v.str) > 0
  ELSE IF IsNum(v) THEN v.num # 0
  ELSE IF IsList(v) THEN Len(v.list) > 0
  ELSE DOMAIN v.obj # {}

\* The results of a Python expression: a value, or a raised exception.
Ok(v) == [ok |-> v]
Raise(e) == [exc |-> e]
IsOk(r) == DOMAIN r = {"ok"}

\* v[k] for a string key k.
GetItemKey(v, k) ==
  IF IsObj(v) THEN (IF k \in DOMAIN v.obj THEN Ok(v.obj[k]) ELSE Raise("KeyError"))
  ELSE Raise("TypeError")

\* v[i] for the integer index i (0-based, i >= 0).
GetItemIndex(v, i) ==
  IF IsList(v) THEN (IF i < Len(v.list) THEN Ok(v.list[i + 1]) ELSE Raise("IndexError"))
  ELSE IF IsStr(v) THEN (IF i < Len(v.str) THEN Ok(JStr(<<v.str[i + 1]>>)) ELSE Raise("IndexError"))
  ELSE IF IsObj(v) THEN Raise("KeyError")
  ELSE Raise("TypeError")

\* v.get(k, default): only dicts have .get.
DictGet(v, k, default) ==
  IF IsObj(v) THEN Ok(IF k \in DOMAIN v.obj THEN v.obj[k] ELSE default)
  ELSE Raise("AttributeError")

\* ---------------------------------------------------------------- strings
LowerAlpha == <<"a","b","c","d","e","f","g","h","i","j","k","l","m",
                "n","o","p","q","r","s","t","u","v","w","x","y","z">>
UpperAlpha == <<"A","B","C","D","E","F","G","H","I","J","K","L","M",
                "N","O","P","Q","R","S","T","U","V","W","X","Y","Z">>
AsciiChars == {LowerAlpha[i] : i \in 1..26} \cup {UpperAlpha[i] : i \in 1..26}
              \cup {"0","1","2","3","4","5","6","7","8","9"} \cup {"_", "-", "/", ":", "."}

UpperChar(c) ==
  IF \E i \in 1..26 : LowerAlpha[i] = c
  THEN UpperAlpha[CHOOSE i \in 1..26 : LowerAlpha[i] = c]
  ELSE c

\* str.upper()
StrUpper(s) == [i \in 1..Len(s) |-> UpperChar(s[i])]

\* Index of the first sep in s at or after position from, 0 when there is none.
FindFrom(s, sep, from) ==
  IF \E i \in from..Len(s) : s[i] = sep
  THEN CHOOSE i \in from..Len(s) : s[i] = sep /\ \A j \in from..(i - 1) : s[j] # sep
  ELSE 0

RECURSIVE SplitFrom(_, _, _, _)
\* s[from..].split(sep, maxsplit)
SplitFrom(s, sep, maxsplit, from) ==
  LET at == FindFrom(s, sep, from)
  IN IF maxsplit = 0 \/ at = 0
     THEN << SubSeq(s, from, Len(s)) >>
     ELSE << SubSeq(s, from, at - 1) >> \o SplitFrom(s, sep, maxsplit - 1, at + 1)

\* str.split(sep) without the limit on the number of splits.
StrSplit_unlimited(s, sep, maxsplit) == SplitFrom(s, sep, Len(s), 1)
\* str.split(sep, maxsplit)
StrSplit(s, sep, maxsplit) == SplitFrom(s, sep, maxsplit, 1)

\* --------------------------------------------------------------- statuses
PENDING == "PENDING"
PROGRESSING == "PROGRESSING"
COMPLETE == "COMPLETE"
FAILED == "FAILED"
TranscodingJobStatus == {PENDING, PROGRESSING, COMPLETE, FAILED}

T_COMPLETE == <<"C","O","M","P","L","E","T","E">>
T_ERROR == <<"E","R","R","O","R">>
T_PROGRESSING == <<"P","R","O","G","R","E","S","S","I","N","G">>

status_map == (T_COMPLETE :> COMPLETE) @@ (T_ERROR :> FAILED) @@ (T_PROGRESSING :> PROGRESSING)

\* _map_status without the upper().
map_status_exact(status) ==
  IF ~IsStr(status) THEN Raise("AttributeError")
  ELSE IF status.str \in DOMAIN status_map THEN Ok(status_map[status.str])
  ELSE Raise("KeyError")
\* _map_status with ERROR taken for a completion.
map_status_error_completes(status) ==
  IF ~IsStr(status) THEN Raise("AttributeError")
  ELSE IF StrUpper(status.str) = T_ERROR THEN Ok(COMPLETE)
  ELSE IF StrUpper(status.str) \in DOMAIN status_map THEN Ok(status_map[StrUpper(status.str)])
  ELSE Raise("KeyError")
\* AWSTranscodingWebhookView._map_status: status_map[status.upper()]
map_status(status) ==
  IF ~IsStr(status) THEN Raise("AttributeError")
  ELSE IF StrUpper(status.str) \in DOMAIN status_map THEN Ok(status_map[StrUpper(status.str)])
  ELSE Raise("KeyError")

\* ------------------------------------------------------------------ state
VARIABLES
  settings,    \* WAGTAILMEDIA settings: WEBHOOK_API_KEY, TRANSCODING_BACKEND
  jobs,        \* MediaTranscodingJob rows, by primary key
  renditions,  \* MediaRendition rows, in creation order
  next_pk,     \* the primary key the next job row gets
  vendor,      \* number of jobs the external service has accepted
  starts,      \* number of start_transcode calls made
  subs,        \* concurrent transcode_video calls: position and locals
  hooks,       \* concurrent webhook requests: position and locals
  last,        \* the handler that returned last: its input and outcome, until taken
  txn,         \* the database transaction of the code saving media: open or not,
               \* the callbacks registered with on_commit, those being run
  aws          \* a MediaConvertService instance kept by its owner, and the
               \* number of get_role requests IAM has received

vars == <<settings, jobs, renditions, next_pk, vendor, starts, subs, hooks, last, txn, aws>>

\* Media rows (owned by the surrounding CMS): primary key and type.
Media == {1, 2}
MediaTypeOf(m) == IF m = 1 THEN "video" ELSE "audio"

\* The id the external service gives the n-th job it accepts.
ExternalJobId(n) == <<"j", ToString(n)>>

EmptyBag == JObj(<<>>)

ActiveStatuses == {PENDING, PROGRESSING}

\* MediaTranscodingJob.objects.filter(media=m, status__in=[...])
ActiveJobs(js, m) == {pk \in DOMAIN js : js[pk].media = m /\ js[pk].status \in ActiveStatuses}

\* MediaTranscodingJob.objects.filter(job_id=job_id)
JobsWithId(js, job_id) == {pk \in DOMAIN js : js[pk].job_id = job_id}

\* Rows of renditions that belong to job pk.
RenditionsOf(rs, pk) == {i \in 1..Len(rs) : rs[i].transcoding_job = pk}

\* Model.save(): every field of the in-memory object is written, auto_now
\* refreshes updated_at.
SaveJob(js, pk, obj) ==
  [p \in DOMAIN js \cup {pk} |->
     IF p = pk
     THEN [obj EXCEPT !.updated_at = (IF pk \in DOMAIN js THEN js[pk].updated_at ELSE 0) + 1]
     ELSE js[p]]

\* ------------------------------------------------------------- responses
JsonResponse(body, code) == [status |-> code, body |-> body]
\* An exception that leaves the view: the framework answers 500.
ServerError(e) == [status |-> 500, body |-> [exception |-> e]]

Unauthorized == JsonResponse([error |-> "Unauthorized"], 401)

\* --------------------------------------------------------- authentication
ValidKey == <<"k", "1">>
WrongKey == <<"k", "2">>
NonAsciiKey == <<"k", "e-acute">>

\* hmac.compare_digest on str: ASCII only, otherwise TypeError.
compare_digest(a, b) ==
  IF \E i \in 1..Len(a) : a[i] \notin AsciiChars THEN Raise("TypeError")
  ELSE IF \E i \in 1..Len(b) : b[i] \notin AsciiChars THEN Raise("TypeError")
  ELSE Ok(a = b)

\* AWSTranscodingWebhookView._verify_api_key
verify_api_key(request, expected_key) ==
  IF expected_key = {} \/ expected_key = {<<>>} THEN Ok(FALSE)
  ELSE LET provided_key == request.headers
       IN IF provided_key = {} \/ provided_key = {<<>>} THEN Ok(FALSE)
          ELSE compare_digest(CHOOSE k \in provided_key : TRUE,
                              CHOOSE k \in expected_key : TRUE)

\* ------------------------------------------------------------------ urls
\* urls.py with the route appended whatever the settings hold.
urlpatterns_unconditional(webhook_api_key) ==
  <<[route |-> "aws-transcoding/", view |-> "AWSTranscodingWebhookView",
     name |-> "aws_transcoding_webhook"]>>
\* wagtailmedia.urls.urlpatterns as the module leaves it when imported under
\* the setting WEBHOOK_API_KEY.
urlpatterns(webhook_api_key) ==
  IF webhook_api_key = {} \/ webhook_api_key = {<<>>} THEN <<>>
  ELSE <<[route |-> "aws-transcoding/", view |-> "AWSTranscodingWebhookView",
          name |-> "aws_transcoding_webhook"]>>

\* ----------------------------------------------------- output descriptors
\* VideoDetails.from_dict reading the keys with data[...].
VideoDetails_from_dict_strict(data) ==
  IF ~IsObj(data) THEN Raise("AttributeError")
  ELSE LET w == GetItemKey(data, "widthInPx")
           h == GetItemKey(data, "heightInPx")
           b == GetItemKey(data, "averageBitrate")
       IN IF ~IsOk(w) THEN w ELSE IF ~IsOk(h) THEN h ELSE IF ~IsOk(b) THEN b
          ELSE Ok([width_px |-> w.ok, height_px |-> h.ok, average_bitrate |-> b.ok])
\* VideoDetails.from_dict
VideoDetails_from_dict(data) ==
  IF ~IsObj(data) THEN Raise("AttributeError")
  ELSE Ok([width_px |-> DictGet(data, "widthInPx", JNull).ok,
           height_px |-> DictGet(data, "heightInPx", JNull).ok,
           average_bitrate |-> DictGet(data, "averageBitrate", JNull).ok])

\* OutputDetail.from_dict; video_details is {} for None.
OutputDetail_from_dict(data) ==
  IF ~IsObj(data) THEN Raise("AttributeError")
  ELSE LET video_details_data == DictGet(data, "videoDetails", EmptyBag).ok
           vd == VideoDetails_from_dict(video_details_data)
       IN IF Truthy(video_details_data) /\ ~IsOk(vd) THEN vd
          ELSE Ok([output_file_paths |-> DictGet(data, "outputFilePaths", JList(<<>>)).ok,
                   duration_ms |-> DictGet(data, "durationInMs", JNum(0)).ok,
                   video_details |-> IF Truthy(video_details_data) THEN {vd.ok} ELSE {}])

\* [OutputDetail.from_dict(item) for item in job_metadata]
OutputDetails(job_metadata) ==
  IF IsNull(job_metadata) \/ IsNum(job_metadata) THEN Raise("TypeError")
  ELSE IF IsStr(job_metadata)
       THEN (IF Len(job_metadata.str) = 0 THEN Ok(<<>>) ELSE Raise("AttributeError"))
  ELSE IF IsObj(job_metadata)
       THEN (IF DOMAIN job_metadata.obj = {} THEN Ok(<<>>) ELSE Raise("AttributeError"))
  ELSE LET items == job_metadata.list
           each == [i \in 1..Len(items) |-> OutputDetail_from_dict(items[i])]
       IN IF \E i \in 1..Len(items) : ~IsOk(each[i])
          THEN each[CHOOSE i \in 1..Len(items) :
                      ~IsOk(each[i]) /\ \A j \in 1..(i - 1) : IsOk(each[j])]
          ELSE Ok([i \in 1..Len(items) |-> each[i].ok])

\* ------------------------------------------------------- webhook handler
\* The view returned resp / the view goes on with these locals.
Return(resp) == [returned |-> TRUE, resp |-> resp]
Continue(locals) == [returned |-> FALSE, locals |-> locals]

\* The output descriptors read with defaults: an empty list when the path
\* to them is missing.
job_metadata_of_defaulting(detail) ==
  LET groups == GetItemKey(detail, "outputGroupDetails")
      first == IF IsOk(groups) THEN GetItemIndex(groups.ok, 0) ELSE groups
      found == IF IsOk(first) THEN GetItemKey(first.ok, "outputDetails") ELSE first
  IN IF IsOk(found) THEN found ELSE Ok(JList(<<>>))
\* detail["outputGroupDetails"][0]["outputDetails"]
job_metadata_of(detail) ==
  LET groups == GetItemKey(detail, "outputGroupDetails")
      first == IF IsOk(groups) THEN GetItemIndex(groups.ok, 0) ELSE groups
  IN IF IsOk(first) THEN GetItemKey(first.ok, "outputDetails") ELSE first

\* post_map_and_outputs with only KeyError caught around the output
\* descriptors.
post_map_and_outputs_keyerror_only(detail, job_id, job_status) ==
  LET mapped == map_status(job_status)
  IN IF ~IsOk(mapped)
     THEN (IF mapped.exc = "KeyError"
           THEN Return(JsonResponse([error |-> "Invalid status", status |-> job_status], 400))
           ELSE Return(ServerError(mapped.exc)))
     ELSE LET status == mapped.ok
              job_metadata == IF status = COMPLETE THEN job_metadata_of(detail) ELSE Ok(EmptyBag)
              output_details == IF status = COMPLETE /\ IsOk(job_metadata)
                                THEN OutputDetails(job_metadata.ok) ELSE Ok(<<>>)
              failed == IF ~IsOk(job_metadata) THEN job_metadata ELSE output_details
          IN IF ~IsOk(failed)
             THEN (IF failed.exc = "KeyError"
                   THEN Return(JsonResponse(
                          [error |-> "COMPLETE status requires outputGroupDetails"], 400))
                   ELSE Return(ServerError(failed.exc)))
             ELSE Continue([job_id |-> job_id, job_status |-> job_status,
                            status |-> status, job_metadata |-> job_metadata.ok,
                            output_details |-> output_details.ok])

\* AWSTranscodingWebhookView.post, from the status mapping to the output
\* descriptors (aws_webhooks.py lines 153-171).
post_map_and_outputs(detail, job_id, job_status) ==
  LET mapped == map_status(job_status)
  IN IF ~IsOk(mapped)
     THEN (IF mapped.exc = "KeyError"
           THEN Return(JsonResponse([error |-> "Invalid status", status |-> job_status], 400))
           ELSE Return(ServerError(mapped.exc)))
     ELSE LET status == mapped.ok
              job_metadata == IF status = COMPLETE THEN job_metadata_of(detail) ELSE Ok(EmptyBag)
              output_details == IF status = COMPLETE /\ IsOk(job_metadata)
                                THEN OutputDetails(job_metadata.ok) ELSE Ok(<<>>)
              failed == IF ~IsOk(job_metadata) THEN job_metadata ELSE output_details
          IN IF ~IsOk(failed)
             THEN (IF failed.exc \in {"KeyError", "IndexError", "TypeError"}
                   THEN Return(JsonResponse(
                          [error |-> "COMPLETE status requires outputGroupDetails"], 400))
                   ELSE Return(ServerError(failed.exc)))
             ELSE Continue([job_id |-> job_id, job_status |-> job_status,
                            status |-> status, job_metadata |-> job_metadata.ok,
                            output_details |-> output_details.ok])

\* The test of line 136 on the status only.
missing_required_status_only(job_id, job_status) == ~Truthy(job_status)
\* if not job_id or not job_status (line 136)
missing_required(job_id, job_status) == ~Truthy(job_id) \/ ~Truthy(job_status)

\* AWSTranscodingWebhookView.post up to the required fields (lines 111-142).
post_parse(request, expected_key) ==
  LET auth == verify_api_key(request, expected_key)
  IN IF ~IsOk(auth) THEN Return(ServerError(auth.exc))
     ELSE IF ~auth.ok THEN Return(Unauthorized)
     ELSE IF ~request.body.valid_json
          THEN Return(JsonResponse([error |-> "Invalid JSON"], 400))
     ELSE LET payload == request.body.json
              detail == GetItemKey(payload, "detail")
          IN IF ~IsOk(detail)
             THEN (IF detail.exc = "KeyError"
                   THEN Return(JsonResponse([error |-> "Missing required field: detail"], 400))
                   ELSE Return(ServerError(detail.exc)))
             ELSE LET job_id == DictGet(detail.ok, "jobId", JNull)
                      job_status == DictGet(detail.ok, "status", JNull)
                  IN IF ~IsOk(job_id) THEN Return(ServerError(job_id.exc))
                     ELSE IF missing_required(job_id.ok, job_status.ok)
                          THEN Return(JsonResponse(
                                 [error |-> "Missing required fields: job_id and status"], 400))
                     ELSE Continue([detail |-> detail.ok, job_id |-> job_id.ok,
                                    job_status |-> job_status.ok])

\* The lookup falling back, for an unknown id, on a row without reference.
post_lookup_adopts_unreferenced(job_id, js) ==
  LET named == IF IsStr(job_id) THEN JobsWithId(js, job_id.str) ELSE {}
      found == IF named = {} THEN JobsWithId(js, <<>>) ELSE named
  IN IF found = {}
     THEN Return(JsonResponse([error |-> "Job not found", job_id |-> job_id], 404))
     ELSE IF Cardinality(found) > 1 THEN Return(ServerError("MultipleObjectsReturned"))
     ELSE LET pk == CHOOSE p \in found : TRUE
          IN Continue([pk |-> pk, seen_status |-> js[pk].status])
\* MediaTranscodingJob.objects.get(job_id=job_id) of line 145 on job table
\* js: the row's key and the status read, or the 404 response.
post_lookup(job_id, js) ==
  LET found == IF IsStr(job_id) THEN JobsWithId(js, job_id.str) ELSE {}
  IN IF found = {}
     THEN Return(JsonResponse([error |-> "Job not found", job_id |-> job_id], 404))
     ELSE IF Cardinality(found) > 1 THEN Return(ServerError("MultipleObjectsReturned"))
     ELSE LET pk == CHOOSE p \in found : TRUE
          IN Continue([pk |-> pk, seen_status |-> js[pk].status])

\* post_validate_with with the status mapped, and the output descriptors
\* read, before the job is looked up.
post_validate_with_lookup_last(parsed, rest, js) ==
  IF parsed.returned THEN parsed
  ELSE LET job == post_lookup(parsed.locals.job_id, js)
       IN IF rest.returned THEN rest
          ELSE IF job.returned THEN job
          ELSE Continue(rest.locals @@ job.locals)

\* AWSTranscodingWebhookView.post up to the output descriptors (lines
\* 111-179): the checks in the order of the code, the lookup made on job
\* table js.  The response, or the locals the view goes on with.  parsed and
\* rest are the results of post_parse and post_map_and_outputs.
post_validate_with(parsed, rest, js) ==
  IF parsed.returned THEN parsed
  ELSE LET job == post_lookup(parsed.locals.job_id, js)
       IN IF job.returned THEN job
          ELSE IF rest.returned THEN rest
          ELSE Continue(rest.locals @@ job.locals)

\* The guard of line 181 testing for FAILED instead of COMPLETE.
post_guard_skips_failed_only(locals) == locals.seen_status # FAILED
\* The guard left out.
post_guard_ignores_complete(locals) == TRUE
\* The guard of line 181 on the job object read by the lookup.
post_guard(locals) == locals.seen_status # COMPLETE

\* _update_transcoding_job writing every job of the named job's media.
update_transcoding_job_of_media(js, job_id, status, job_metadata) ==
  LET found == JobsWithId(js, job_id.str)
  IN IF found = {} THEN Raise("DoesNotExist")
     ELSE IF Cardinality(found) > 1 THEN Raise("MultipleObjectsReturned")
     ELSE LET pk == CHOOSE p \in found : TRUE
          IN Ok([p \in DOMAIN js |->
                  IF js[p].media = js[pk].media
                  THEN SaveJob(js, p, [js[p] EXCEPT !.status = status,
                                                    !.metadata = job_metadata])[p]
                  ELSE js[p]])
\* _update_transcoding_job with the status overwritten and the metadata kept.
update_transcoding_job_keeps_metadata(js, job_id, status, job_metadata) ==
  LET found == JobsWithId(js, job_id.str)
  IN IF found = {} THEN Raise("DoesNotExist")
     ELSE IF Cardinality(found) > 1 THEN Raise("MultipleObjectsReturned")
     ELSE LET pk == CHOOSE p \in found : TRUE
          IN Ok(SaveJob(js, pk, [js[pk] EXCEPT !.status = status]))
\* AWSTranscodingWebhookView._update_transcoding_job: fetch again, overwrite
\* status and metadata, save.
update_transcoding_job(js, job_id, status, job_metadata) ==
  LET found == JobsWithId(js, job_id.str)
  IN IF found = {} THEN Raise("DoesNotExist")
     ELSE IF Cardinality(found) > 1 THEN Raise("MultipleObjectsReturned")
     ELSE LET pk == CHOOSE p \in found : TRUE
          IN Ok(SaveJob(js, pk, [js[pk] EXCEPT !.status = status, !.metadata = job_metadata]))

\* ---------------------------------------------------------- Python floats
\* A positive float is its significand of MantBits bits, most significant
\* bit first, and the exponent of that first bit: mant[1].mant[2]... * 2^exp.
\* An int is [int |-> n].
MantBits == 53
PyInt(n) == [int |-> n]
Zeros(k) == [i \in 1..k |-> 0]
Reverse(s) == [i \in 1..Len(s) |-> s[Len(s) + 1 - i]]
RECURSIVE IntBits(_)
\* The binary digits of n, most significant first, none for 0.
IntBits(n) == IF n = 0 THEN <<>> ELSE Append(IntBits(n \div 2), n % 2)

\* Round the binary number bits[1].bits[2]... * 2^exp, followed by something
\* non-zero when sticky, to the nearest float, ties to even.
RoundToDouble(bits, exp, sticky) ==
  IF Len(bits) <= MantBits
  THEN [mant |-> bits \o Zeros(MantBits - Len(bits)), exp |-> exp]
  ELSE LET top == SubSeq(bits, 1, MantBits)
           guard == bits[MantBits + 1]
           rest == sticky \/ \E i \in (MantBits + 2)..Len(bits) : bits[i] = 1
           up == guard = 1 /\ (rest \/ top[MantBits] = 1)
           zeros == {i \in 1..MantBits : top[i] = 0}
       IN IF ~up THEN [mant |-> top, exp |-> exp]
          ELSE IF zeros = {} THEN [mant |-> <<1>> \o Zeros(MantBits - 1), exp |-> exp + 1]
          ELSE LET p == CHOOSE i \in zeros : \A j \in zeros : j <= i
               IN [mant |-> [i \in 1..MantBits |->
                              IF i < p THEN top[i] ELSE IF i = p THEN 1 ELSE 0],
                   exp |-> exp]

\* float(n) of an int n > 0.
FloatOfInt(n) == RoundToDouble(IntBits(n), Len(IntBits(n)) - 1, FALSE)

RECURSIVE ScaleDown(_, _, _)
\* The least N = n * 2^(-e) with N >= d, from N and e so far.
ScaleDown(N, d, e) ==
  IF N >= d THEN [N |-> N, e |-> e] ELSE ScaleDown(2 * N, d, e - 1)
RECURSIVE ScaleUp(_, _, _)
\* The greatest D = d * 2^e with D <= n, from D and e so far.
ScaleUp(n, D, e) ==
  IF 2 * D <= n THEN ScaleUp(n, 2 * D, e + 1) ELSE [D |-> D, e |-> e]
RECURSIVE QuotientBits(_, _, _, _)
\* The next k binary digits of r / D for r < D after the digits in bits,
\* and the remainder left.
QuotientBits(r, D, k, bits) ==
  IF k = 0 THEN [bits |-> bits, rem |-> r]
  ELSE IF 2 * r >= D THEN QuotientBits(2 * r - D, D, k - 1, Append(bits, 1))
  ELSE QuotientBits(2 * r, D, k - 1, Append(bits, 0))

\* n // d, the quotient of the ints rounded down.
TrueDiv_floor(n, d) == PyInt(n \div d)
\* n / d of two ints n, d > 0: the quotient rounded to the nearest float.
TrueDiv(n, d) ==
  LET a == ScaleDown(n, d, 0)
      b == ScaleUp(a.N, d, 0)
      q == QuotientBits(a.N - b.D, b.D, MantBits, <<1>>)
  IN RoundToDouble(q.bits, a.e + b.e, q.rem # 0)

RECURSIVE MulFrom(_, _, _, _)
\* bits[1..i] times c plus carry, least significant digit first.
MulFrom(bits, i, c, carry) ==
  IF i = 0 THEN Reverse(IntBits(carry))
  ELSE LET t == bits[i] * c + carry
       IN <<t % 2>> \o MulFrom(bits, i - 1, c, t \div 2)
\* The product of float f and int c > 0 before rounding.
ExactProduct(f, c) ==
  LET bits == Reverse(MulFrom(f.mant, MantBits, c, 0))
  IN [bits |-> bits, exp |-> f.exp - (MantBits - 1) + (Len(bits) - 1)]
\* f * c of a float f and an int c > 0.
FloatMulInt(f, c) ==
  LET p == ExactProduct(f, c) IN RoundToDouble(p.bits, p.exp, FALSE)

\* duration_ms / 1000 if duration_ms else 0 (line 237), for an int or None.
duration_of(ms) == IF Truthy(ms) THEN TrueDiv(ms.num, 1000) ELSE PyInt(0)

\* The try of lines 211-216 without its except clause.
parse_failure_raises(e, rs) == e
\* except (IndexError, TypeError) of lines 214-216: return, the rendition
\* table as it was; any other exception leaves _create_rendition.
parse_failure(e, rs) == IF e.exc \in {"IndexError", "TypeError"} THEN Ok(rs) ELSE e

\* AWSTranscodingWebhookView._create_rendition.  The result is the rendition
\* table; parse failures of the file path return without a rendition.
create_rendition(js, rs, job_id, output_detail) ==
  LET s3_full_path == GetItemIndex(output_detail.output_file_paths, 0)
  IN IF ~IsOk(s3_full_path) THEN parse_failure(s3_full_path, rs)
     ELSE IF ~IsStr(s3_full_path.ok) THEN parse_failure(Raise("AttributeError"), rs)
     ELSE LET parts == StrSplit(s3_full_path.ok.str, "/", 3)
          IN IF Len(parts) < 4 THEN parse_failure(Raise("IndexError"), rs)
             ELSE LET s3_key == parts[4]
                      found == JobsWithId(js, job_id.str)
                      vd == output_detail.video_details
                      details == CHOOSE d \in vd : TRUE
                      ms == output_detail.duration_ms
                  IN IF found = {} THEN Raise("DoesNotExist")
                     ELSE IF Cardinality(found) > 1 THEN Raise("MultipleObjectsReturned")
                     ELSE IF Truthy(ms) /\ ~IsNum(ms) THEN Raise("TypeError")
                     ELSE LET pk == CHOOSE p \in found : TRUE
                          IN Ok(Append(rs,
                               [media |-> js[pk].media,
                                transcoding_job |-> pk,
                                file |-> s3_key,
                                width |-> IF vd # {} THEN details.width_px ELSE JNull,
                                height |-> IF vd # {} THEN details.height_px ELSE JNull,
                                duration |-> duration_of(ms),
                                bitrate |-> IF vd # {} THEN details.average_bitrate ELSE JNull]))

\* The response of line 188 with the token in the casing the mapping uses.
Accepted_upper(locals) ==
  JsonResponse([job_id |-> locals.job_id,
                job_status |-> JStr(StrUpper(locals.job_status.str))], 200)
\* JsonResponse({"job_id": job_id, "job_status": job_status}, status=200)
Accepted(locals) == JsonResponse([job_id |-> locals.job_id, job_status |-> locals.job_status], 200)

\* Lines 181-186 run in one piece on the database d: the result is the new
\* job and rendition tables and the response.
post_apply(locals, js, rs) ==
  IF ~post_guard(locals) THEN [jobs |-> js, renditions |-> rs, resp |-> Accepted(locals)]
  ELSE LET updated == update_transcoding_job(js, locals.job_id, locals.status, locals.job_metadata)
       IN IF ~IsOk(updated) THEN [jobs |-> js, renditions |-> rs, resp |-> ServerError(updated.exc)]
          ELSE IF locals.status = COMPLETE /\ Len(locals.output_details) > 0
               THEN LET created == create_rendition(updated.ok, rs, locals.job_id,
                                                    locals.output_details[1])
                    IN IF IsOk(created)
                       THEN [jobs |-> updated.ok, renditions |-> created.ok, resp |-> Accepted(locals)]
                       ELSE [jobs |-> updated.ok, renditions |-> rs, resp |-> ServerError(created.exc)]
               ELSE [jobs |-> updated.ok, renditions |-> rs, resp |-> Accepted(locals)]

\* ------------------------------------------------------ submission path
\* Exception classes and their base classes.  The AWS backend module
\* defines its own TranscodingError (aws.py lines 10-25), the submission
\* path imports the one of transcoding_backends.base.
Bases(cls) ==
  CASE cls = "base.TranscodingError" -> {"Exception"}
    [] cls = "aws.TranscodingError" -> {"Exception"}
    [] cls = "aws.S3UploadError" -> {"aws.TranscodingError", "Exception"}
    [] cls = "aws.MediaConvertJobError" -> {"aws.TranscodingError", "Exception"}
    [] cls = "ImproperlyConfigured" -> {"Exception"}
    [] cls = "ValueError" -> {"Exception"}
    [] OTHER -> {}
IsInstance(e, cls) == e.cls = cls \/ cls \in Bases(e.cls)
\* err.__class__.__name__
ClassName(e) ==
  CASE e.cls = "base.TranscodingError" -> "TranscodingError"
    [] e.cls = "aws.TranscodingError" -> "TranscodingError"
    [] e.cls = "aws.S3UploadError" -> "S3UploadError"
    [] e.cls = "aws.MediaConvertJobError" -> "MediaConvertJobError"
    [] OTHER -> e.cls

\* What backend.start_transcode(file) can do: return the vendor's response
\* or raise.
StartOutcomes ==
  {[raises |-> FALSE]} \cup
  {[raises |-> TRUE, cls |-> c, msg |-> "message"] :
     c \in {"base.TranscodingError", "aws.S3UploadError", "aws.MediaConvertJobError",
            "ImproperlyConfigured", "ValueError"}}

FileOf(m) == [file_of |-> m]

\* sub_check without the test of the media type.
sub_check_any_type(m, backend_cls, js) ==
  IF backend_cls # {}
  THEN (IF ActiveJobs(js, m) # {} THEN "skipped" ELSE "create")
  ELSE "noop"
\* sub_check with PENDING jobs taken for expired: only PROGRESSING ones count.
sub_check_pending_expired(m, backend_cls, js) ==
  IF MediaTypeOf(m) = "video" /\ backend_cls # {}
  THEN (IF \E pk \in ActiveJobs(js, m) : js[pk].status = PROGRESSING
        THEN "skipped" ELSE "create")
  ELSE "noop"
\* sub_check skipping the media that has a job of any status.
sub_check_once_per_media(m, backend_cls, js) ==
  IF MediaTypeOf(m) = "video" /\ backend_cls # {}
  THEN (IF \E pk \in DOMAIN js : js[pk].media = m THEN "skipped" ELSE "create")
  ELSE "noop"
\* sub_check without the query for an active job.
sub_check_no_active(m, backend_cls, js) ==
  IF MediaTypeOf(m) = "video" /\ backend_cls # {} THEN "create" ELSE "noop"
\* transcode_video lines 31-49: the outcome of the checks before the job
\* row is created.  "noop": the if of line 33 is not entered, so no backend
\* is instantiated (line 36); "skipped": the return of line 49.
sub_check(m, backend_cls, js) ==
  IF MediaTypeOf(m) = "video" /\ backend_cls # {}
  THEN (IF ActiveJobs(js, m) # {} THEN "skipped" ELSE "create")
  ELSE "noop"

\* The in-memory object MediaTranscodingJob.objects.create returns
\* (lines 51-54).
NewJob(m) == [media |-> m, job_id |-> <<>>, status |-> PENDING, backend |-> "",
              metadata |-> EmptyBag, updated_at |-> 0]

\* f"{backend_cls.__module__}.{backend_cls.__name__}"
DottedPath(cls) == cls.module \o "." \o cls.name

\* The success branch without the reference of the vendor's response.
sub_success_no_job_id(js, pk, obj, job_ref, backend_cls) ==
  [jobs |-> SaveJob(js, pk, [obj EXCEPT
              !.backend = DottedPath(CHOOSE c \in backend_cls : TRUE)]),
   raised |-> {}]
\* The success branch without the backend identifier.
sub_success_no_backend(js, pk, obj, job_ref, backend_cls) ==
  [jobs |-> SaveJob(js, pk, [obj EXCEPT !.job_id = job_ref]), raised |-> {}]
\* transcode_video lines 58-60: start_transcode returned; the reference and
\* the backend identifier are set on the object and it is saved.
sub_success(js, pk, obj, job_ref, backend_cls) ==
  [jobs |-> SaveJob(js, pk, [obj EXCEPT
              !.job_id = job_ref,
              !.backend = DottedPath(CHOOSE c \in backend_cls : TRUE)]),
   raised |-> {}]

\* The except TranscodingError branch with a trailing raise.
sub_transcoding_error_reraises(js, pk, obj, out) ==
  [jobs |-> SaveJob(js, pk, [obj EXCEPT
              !.status = FAILED,
              !.metadata = JObj([error_type |-> ClassName(out), error |-> out.msg])]),
   raised |-> {out.cls}]
\* transcode_video lines 65-80: except TranscodingError.
sub_transcoding_error(js, pk, obj, out) ==
  [jobs |-> SaveJob(js, pk, [obj EXCEPT
              !.status = FAILED,
              !.metadata = JObj([error_type |-> ClassName(out), error |-> out.msg])]),
   raised |-> {}]

\* The except Exception branch without its raise.
sub_unexpected_error_swallowed(js, pk, obj, out) ==
  [jobs |-> SaveJob(js, pk, [obj EXCEPT
              !.status = FAILED,
              !.metadata = JObj([error_type |-> "unknown", error |-> out.msg])]),
   raised |-> {}]
\* transcode_video lines 89-98: except Exception.
sub_unexpected_error(js, pk, obj, out) ==
  [jobs |-> SaveJob(js, pk, [obj EXCEPT
              !.status = FAILED,
              !.metadata = JObj([error_type |-> "unknown", error |-> out.msg])]),
   raised |-> {out.cls}]

\* sub_finish that never writes: the row stays as created.
sub_finish_keeps_job(js, pk, obj, out, job_ref, backend_cls) ==
  [jobs |-> js, raised |-> IF out.raises THEN {out.cls} ELSE {}]
\* transcode_video lines 56-98 after start_transcode returned or raised
\* with outcome out: the write to the job row pk (whose in-memory object is
\* obj) and whether the exception leaves transcode_video.  job_ref is the
\* id in the vendor's response.
sub_finish(js, pk, obj, out, job_ref, backend_cls) ==
  IF ~out.raises THEN sub_success(js, pk, obj, job_ref, backend_cls)
  ELSE IF IsInstance(out, "base.TranscodingError") THEN sub_transcoding_error(js, pk, obj, out)
  ELSE IF IsInstance(out, "ImproperlyConfigured")
  THEN [jobs |-> [p \in DOMAIN js \ {pk} |-> js[p]], raised |-> {out.cls}]
  ELSE sub_unexpected_error(js, pk, obj, out)

\* ------------------------------------------------------------- requests
P_KEYED == <<"s","3",":","/","/","b","/","m","/","t",".","m","p","4">>
P_NOKEY == <<"s","3",":","/","/","b">>

D_FULL == JObj([outputFilePaths |-> JList(<<JStr(P_KEYED)>>),
                durationInMs |-> JNum(10500),
                videoDetails |-> JObj([widthInPx |-> JNum(1280),
                                       heightInPx |-> JNum(720),
                                       averageBitrate |-> JNum(2500000)])])
D_NOVIDEO == JObj([outputFilePaths |-> JList(<<JStr(P_KEYED)>>),
                   durationInMs |-> JNum(5000)])
D_NOPATH == JObj([outputFilePaths |-> JList(<<JStr(P_NOKEY)>>),
                  durationInMs |-> JNum(5000)])
D_PARTIAL == JObj([outputFilePaths |-> JList(<<JStr(P_KEYED)>>),
                   durationInMs |-> JNum(5000),
                   videoDetails |-> JObj([widthInPx |-> JNum(1920)])])

Group(descriptors) == JList(<<JObj([outputDetails |-> JList(descriptors)])>>)

\* Values of detail.outputGroupDetails; {} stands for an absent key.
NoOutputs == {{}, {JList(<<>>)}, {JList(<<JObj(<<>>)>>)}}
EmptyOutputs == {{Group(<<>>)}}
SomeOutputs == {{Group(<<D_FULL>>)}, {Group(<<D_NOVIDEO, D_FULL>>)}, {Group(<<D_NOPATH>>)},
                {Group(<<D_PARTIAL>>)}}

\* Status tokens: the vendor's vocabulary in several casings, and others.
CompleteTokens == {T_COMPLETE, <<"C","o","m","p","l","e","t","e">>}
ProgressingTokens == {T_PROGRESSING, <<"p","r","o","g","r","e","s","s","i","n","g">>}
ErrorTokens == {T_ERROR, <<"e","r","r","O","R">>}
VendorTokens == {T_COMPLETE, T_PROGRESSING, T_ERROR}
OtherTokens == {<<"P","E","N","D","I","N","G">>,
                <<"U","N","K","N","O","W","N","_","S","T","A","T","U","S">>}

\* Job references a delivery can name: every id the vendor can have issued
\* and one it never issues.
KnownRefs == {ExternalJobId(n) : n \in 1..MaxJobs}
UnknownRef == ExternalJobId(MaxJobs + 1)

Field(k, opt) == IF opt = {} THEN <<>> ELSE (k :> (CHOOSE v \in opt : TRUE))

\* The JSON body {"detail": {"jobId": .., "status": .., "outputGroupDetails": ..}}.
Payload(job_id, status, outputs) ==
  [valid_json |-> TRUE,
   json |-> JObj([detail |-> JObj(Field("jobId", job_id) @@ Field("status", status)
                                  @@ Field("outputGroupDetails", outputs))])]
Malformed == [valid_json |-> FALSE]
NoDetail == [valid_json |-> TRUE, json |-> JObj([version |-> JStr(<<"0">>)])]

Str(s) == {JStr(s)}

\* The bodies sent with a valid key.  Every shape of envelope; for the first
\* job the vendor issues, every token in every casing and every shape of
\* outputGroupDetails; for every other reference, each kind of status update.
FullRef == ExternalJobId(1)
OtherRefs == (KnownRefs \ {FullRef}) \cup {UnknownRef}
Bodies ==
  {Malformed, NoDetail}
  \cup {Payload(j, s, {}) :
          j \in {{}, Str(<<>>)}, s \in {{}, Str(T_PROGRESSING)}}
  \cup {Payload(Str(FullRef), s, {}) :
          s \in {{}, Str(<<>>)} \cup {Str(t) : t \in OtherTokens}}
  \cup {Payload(Str(FullRef), Str(t), o) :
          t \in ProgressingTokens \cup ErrorTokens, o \in {{}}}
  \cup {Payload(Str(FullRef), Str(T_COMPLETE), o) :
          o \in NoOutputs \cup EmptyOutputs \cup SomeOutputs}
  \cup {Payload(Str(FullRef), Str(t), o) :
          t \in CompleteTokens, o \in {{}, {Group(<<D_FULL>>)}}}
  \cup {Payload(Str(FullRef), Str(t), {Group(<<D_FULL>>)}) :
          t \in {T_PROGRESSING, T_ERROR}}
  \cup {Payload(Str(j), Str(t), {}) :
          j \in OtherRefs, t \in {T_PROGRESSING, T_ERROR} \cup OtherTokens}
  \cup {Payload(Str(j), Str(T_COMPLETE), o) :
          j \in OtherRefs, o \in {{}, {Group(<<D_FULL>>)}}}

\* The X-API-Key header: absent, empty, or a value.
Headers == {{}, {<<>>}, {ValidKey}, {WrongKey}, {NonAsciiKey}}

\* Bodies sent along with any header.
ProbeBodies ==
  {Malformed,
   Payload(Str(FullRef), Str(T_PROGRESSING), {}),
   Payload(Str(FullRef), Str(T_COMPLETE), {Group(<<D_FULL>>)})}

Requests ==
  [headers : {{ValidKey}}, body : Bodies] \cup [headers : Headers, body : ProbeBodies]

\* A delivery is a request reaching the view under a configured key,
\* together with the part of post that does not depend on the database:
\* the result of post_parse and, for a request that passes it, the result of
\* post_map_and_outputs.  Both are computed once per request.
ExpectedKeys == {{}, {ValidKey}}
Delivery(request, expected_key) ==
  [request |-> request, expected_key |-> expected_key,
   parsed |-> post_parse(request, expected_key),
   rest |-> LET parsed == post_parse(request, expected_key)
            IN IF parsed.returned THEN parsed
               ELSE post_map_and_outputs(parsed.locals.detail, parsed.locals.job_id,
                                         parsed.locals.job_status)]
Deliveries ==
  {Delivery(request, expected_key) : request \in Requests, expected_key \in ExpectedKeys}

\* AWSTranscodingWebhookView.post up to the output descriptors (lines
\* 111-179) for delivery d, the lookup made on job table js.
post_validate(d, js) == post_validate_with(d.parsed, d.rest, js)

\* post_result with the job row saved as soon as it is found, before the
\* status is mapped.
post_result_saves_on_lookup(d, js, rs) ==
  LET v == post_validate(d, js)
      job == post_lookup(d.parsed.locals.job_id, js)
  IN IF v.returned
     THEN [jobs |-> IF ~d.parsed.returned /\ ~job.returned
                    THEN SaveJob(js, job.locals.pk, js[job.locals.pk]) ELSE js,
           renditions |-> rs, resp |-> v.resp]
     ELSE post_apply(v.locals, js, rs)
\* AWSTranscodingWebhookView.post, the whole handler for delivery d on job
\* table js and rendition table rs.
post_result(d, js, rs) ==
  LET v == post_validate(d, js)
  IN IF v.returned THEN [jobs |-> js, renditions |-> rs, resp |-> v.resp]
     ELSE post_apply(v.locals, js, rs)

\* ----------------------------------------------------------------- Init
EMCTranscodingBackend == [module |-> "wagtailmedia.transcoding_backends.aws",
                          name |-> "EMCTranscodingBackend"]

SubWorkers == {1, 2}
HookWorkers == {1, 2}
Idle == [pc |-> "idle"]
\* The value of last while no handler's result is waiting for its caller.
NoCall == [op |-> "none"]
\* No atomic block entered, nothing registered with on_commit.
NoTxn == [open |-> FALSE, on_commit |-> <<>>, run |-> <<>>]
\* MediaConvertService.__init__ (self._role_arn = None), IAM not yet asked.
MediaConvertService == [role_arn |-> {}]
\* No start_transcode of the AWS backend has run: AWS has answered nothing.
NoAws == [service |-> MediaConvertService, get_role |-> 0, replies |-> [s3 |-> "none", iam |-> "none", job |-> "none"]]

Init ==
  /\ settings \in [WEBHOOK_API_KEY : ExpectedKeys,
                   TRANSCODING_BACKEND : {{}, {EMCTranscodingBackend}}]
  /\ jobs = <<>>
  /\ renditions = <<>>
  /\ next_pk = 1
  /\ vendor = 0
  /\ starts = <<>>
  /\ subs = [w \in SubWorkers |-> Idle]
  /\ hooks = [w \in HookWorkers |-> Idle]
  /\ last = NoCall
  /\ txn = NoTxn
  /\ aws = NoAws

\* The bounds of the model: rows created, writes per row.
WithinBounds(js, pk) ==
  /\ pk <= MaxJobs + 1
  /\ \A p \in DOMAIN js : js[p].updated_at <= MaxUpdatedAt

\* What transcode_video reports in last.
SubReturn(m, outcome, pk, start, raised) ==
  [op |-> "transcode_video", instance |-> m, outcome |-> outcome, pk |-> pk,
   start |-> start, raised |-> raised]
\* What post reports in last.
PostReturn(d, resp) == [op |-> "post", headers |-> d.request.headers, resp |-> resp]

\* ------------------------------------- handlers run one after another
\* signal_handlers.transcode_video(instance), start_transcode ending in out:
\* what one call does to the database, the vendor and last.
transcode_video_call(m, out) ==
  LET check == sub_check(m, settings.TRANSCODING_BACKEND, jobs)
      pk == next_pk
      created == SaveJob(jobs, pk, NewJob(m))
      fin == sub_finish(created, pk, created[pk], out, ExternalJobId(vendor + 1),
                        settings.TRANSCODING_BACKEND)
  IN /\ last = NoCall
     /\ IF check # "create"
        THEN /\ last' = SubReturn(m, check, 0, {}, {})
             /\ UNCHANGED <<jobs, next_pk, vendor, starts>>
        ELSE /\ WithinBounds(fin.jobs, pk + 1)
             /\ jobs' = fin.jobs
             /\ next_pk' = pk + 1
             /\ starts' = Append(starts, FileOf(m))
             /\ vendor' = IF out.raises THEN vendor ELSE vendor + 1
             /\ last' = SubReturn(m, "started", pk, {out}, fin.raised)
     /\ UNCHANGED <<settings, renditions, subs, hooks>>

\* transcode_video(instance) called for a save made outside any transaction.
transcode_video(m, out) == transcode_video_call(m, out) /\ UNCHANGED <<txn, aws>>

\* AWSTranscodingWebhookView.post(request) for the delivery d
post(d) ==
  LET r == post_result(d, jobs, renditions)
  IN /\ last = NoCall
     /\ d.expected_key = settings.WEBHOOK_API_KEY
     /\ WithinBounds(r.jobs, next_pk)
     /\ jobs' = r.jobs
     /\ renditions' = r.renditions
     /\ last' = PostReturn(d, r.resp)
     /\ UNCHANGED <<aws, txn, settings, next_pk, vendor, starts, subs, hooks>>

\* The caller takes the result of the handler that ran: Django hands the
\* response to the client, or save() returns to the code that saved the media.
Returned ==
  /\ last # NoCall
  /\ last' = NoCall
  /\ UNCHANGED <<aws, txn, settings, jobs, renditions, next_pk, vendor, starts, subs, hooks>>

Next ==
  \/ \E m \in Media, out \in StartOutcomes : transcode_video(m, out)
  \/ \E d \in Deliveries : post(d)
  \/ Returned

Spec == Init /\ [][Next]_vars

\* ------------------------------------------- handlers run concurrently
\* Each media save and each webhook request is handled by its own worker;
\* a worker takes one step per access to the database or to the vendor.

\* Deliveries of the concurrent runs: authenticated status updates for
\* jobs the vendor knows, and one for a job it does not.
ConcBodies ==
  {Payload(Str(j), Str(t), {}) : j \in KnownRefs, t \in {T_PROGRESSING, T_ERROR}}
  \cup {Payload(Str(j), Str(T_COMPLETE), {Group(<<D_FULL>>)}) : j \in KnownRefs}
  \cup {Payload(Str(UnknownRef), Str(T_PROGRESSING), {})}
ConcDeliveries ==
  {d \in Deliveries : d.request.headers = {ValidKey} /\ d.request.body \in ConcBodies}

\* transcode_video lines 31-49: the checks and the query for an active job.
SubCheck(w, m) ==
  LET check == sub_check(m, settings.TRANSCODING_BACKEND, jobs)
  IN /\ subs[w].pc = "idle"
     /\ IF check # "create"
        THEN /\ last' = SubReturn(m, check, 0, {}, {})
             /\ UNCHANGED subs
        ELSE /\ subs' = [subs EXCEPT ![w] = [pc |-> "create", instance |-> m]]
             /\ UNCHANGED last
     /\ UNCHANGED <<aws, txn, settings, jobs, renditions, next_pk, vendor, starts, hooks>>

\* transcode_video lines 51-54: MediaTranscodingJob.objects.create.
SubCreate(w) ==
  LET pk == next_pk
      created == SaveJob(jobs, pk, NewJob(subs[w].instance))
  IN /\ subs[w].pc = "create"
     /\ WithinBounds(created, pk + 1)
     /\ jobs' = created
     /\ next_pk' = pk + 1
     /\ subs' = [subs EXCEPT ![w] = [pc |-> "start", instance |-> subs[w].instance,
                                     pk |-> pk, obj |-> created[pk]]]
     /\ UNCHANGED <<aws, txn, settings, renditions, vendor, starts, hooks, last>>

\* transcode_video line 57: backend.start_transcode(file) returns or raises.
SubStart(w, out) ==
  /\ subs[w].pc = "start"
  /\ starts' = Append(starts, FileOf(subs[w].instance))
  /\ vendor' = IF out.raises THEN vendor ELSE vendor + 1
  /\ subs' = [subs EXCEPT ![w] = [pc |-> "finish", instance |-> subs[w].instance,
                                  pk |-> subs[w].pk, obj |-> subs[w].obj, out |-> out,
                                  job_ref |-> ExternalJobId(vendor + 1)]]
  /\ UNCHANGED <<aws, txn, settings, jobs, renditions, next_pk, hooks, last>>

\* transcode_video lines 58-98: the save or delete of the job row.
SubFinish(w) ==
  LET l == subs[w]
      fin == sub_finish(jobs, l.pk, l.obj, l.out, l.job_ref, settings.TRANSCODING_BACKEND)
  IN /\ l.pc = "finish"
     /\ WithinBounds(fin.jobs, next_pk)
     /\ jobs' = fin.jobs
     /\ subs' = [subs EXCEPT ![w] = Idle]
     /\ last' = SubReturn(l.instance, "started", l.pk, {l.out}, fin.raised)
     /\ UNCHANGED <<aws, txn, settings, renditions, next_pk, vendor, starts, hooks>>

\* post lines 111-181: the checks, the job lookup and the guard on the job
\* object the lookup returned.
HookReceive(w, d) ==
  LET v == post_validate(d, jobs)
  IN /\ hooks[w].pc = "idle"
     /\ d.expected_key = settings.WEBHOOK_API_KEY
     /\ IF v.returned
        THEN /\ last' = PostReturn(d, v.resp)
             /\ UNCHANGED hooks
        ELSE IF ~post_guard(v.locals)
        THEN /\ last' = PostReturn(d, Accepted(v.locals))
             /\ UNCHANGED hooks
        ELSE /\ hooks' = [hooks EXCEPT ![w] = [pc |-> "update", d |-> d, locals |-> v.locals]]
             /\ UNCHANGED last
     /\ UNCHANGED <<aws, txn, settings, jobs, renditions, next_pk, vendor, starts, subs>>

\* post line 182: _update_transcoding_job.
HookUpdate(w) ==
  LET l == hooks[w].locals
      updated == update_transcoding_job(jobs, l.job_id, l.status, l.job_metadata)
  IN /\ hooks[w].pc = "update"
     /\ IF ~IsOk(updated)
        THEN /\ last' = PostReturn(hooks[w].d, ServerError(updated.exc))
             /\ hooks' = [hooks EXCEPT ![w] = Idle]
             /\ UNCHANGED jobs
        ELSE /\ WithinBounds(updated.ok, next_pk)
             /\ jobs' = updated.ok
             /\ IF l.status = COMPLETE /\ Len(l.output_details) > 0
                THEN /\ hooks' = [hooks EXCEPT ![w].pc = "rendition"]
                     /\ UNCHANGED last
                ELSE /\ hooks' = [hooks EXCEPT ![w] = Idle]
                     /\ last' = PostReturn(hooks[w].d, Accepted(l))
     /\ UNCHANGED <<aws, txn, settings, renditions, next_pk, vendor, starts, subs>>

\* post lines 185-186: _create_rendition, then the response.
HookRendition(w) ==
  LET l == hooks[w].locals
      created == create_rendition(jobs, renditions, l.job_id, l.output_details[1])
  IN /\ hooks[w].pc = "rendition"
     /\ renditions' = IF IsOk(created) THEN created.ok ELSE renditions
     /\ last' = PostReturn(hooks[w].d,
                           IF IsOk(created) THEN Accepted(l) ELSE ServerError(created.exc))
     /\ hooks' = [hooks EXCEPT ![w] = Idle]
     /\ UNCHANGED <<aws, txn, settings, jobs, next_pk, vendor, starts, subs>>

NextConc ==
  \/ \E w \in SubWorkers, m \in Media : SubCheck(w, m)
  \/ \E w \in SubWorkers : SubCreate(w)
  \/ \E w \in SubWorkers, out \in StartOutcomes : SubStart(w, out)
  \/ \E w \in SubWorkers : SubFinish(w)
  \/ \E w \in HookWorkers, d \in ConcDeliveries : HookReceive(w, d)
  \/ \E w \in HookWorkers : HookUpdate(w)
  \/ \E w \in HookWorkers : HookRendition(w)

SpecConc == Init /\ [][NextConc]_vars

\* ------------------------------- a submission overtaken by deliveries
\* One worker handles the media saves, a step per access to the database
\* or to the vendor; between its steps the view handles whole deliveries:
\* status updates for the job the vendor issues first, and bodies whose
\* jobId is missing, null or empty.
RaceBodies ==
  {Payload(Str(FullRef), Str(t), {}) : t \in {T_PROGRESSING, T_ERROR}}
  \cup {Payload(Str(FullRef), Str(T_COMPLETE), {Group(<<D_FULL>>)})}
  \cup {Payload(j, Str(T_PROGRESSING), {}) : j \in {{}, {JNull}, Str(<<>>)}}
  \cup {Payload(Str(<<>>), Str(T_COMPLETE), {Group(<<D_FULL>>)})}
RaceDeliveries ==
  {Delivery([headers |-> {ValidKey}, body |-> body], {ValidKey}) : body \in RaceBodies}

\* The steps of the worker, each taken once the outcome of the call before
\* it has been collected, so that last tells the state a call was made in.
RaceCheck(m) == last = NoCall /\ SubCheck(1, m)
RaceCreate == last = NoCall /\ SubCreate(1)
RaceStart(out) == last = NoCall /\ SubStart(1, out)
RaceFinish == last = NoCall /\ SubFinish(1)

NextRace ==
  \/ \E m \in Media : RaceCheck(m)
  \/ RaceCreate
  \/ \E out \in StartOutcomes : RaceStart(out)
  \/ RaceFinish
  \/ \E d \in RaceDeliveries : post(d)
  \/ Returned

SpecRace == Init /\ [][NextRace]_vars

\* ------------------------------------ media saved inside transactions
\* The code that saves media runs in one thread: it may enter an atomic
\* block, save media in it (post_save fires at each save) and leave it by
\* commit or rollback.  transaction.on_commit(func) keeps func until the
\* block commits and drops it when the block rolls back; called outside
\* any block it runs func at once.  After a commit the callbacks run in the
\* order they were registered, and an exception leaving one of them drops
\* those after it.

\* The save enters transaction.atomic().
atomic_enter ==
  /\ ~txn.open
  /\ txn.run = <<>>
  /\ last = NoCall
  /\ txn' = [txn EXCEPT !.open = TRUE]
  /\ UNCHANGED <<aws, settings, jobs, renditions, next_pk, vendor, starts, subs, hooks, last>>

\* post_save_transcode_video calling transcode_video itself.
post_save_transcode_video_direct(m, out) ==
  /\ txn.run = <<>>
  /\ transcode_video_call(m, out)
  /\ UNCHANGED <<txn, aws>>
\* signal_handlers.post_save_transcode_video(instance), the receiver of
\* post_save: transaction.on_commit(lambda: transcode_video(instance)).
post_save_transcode_video(m, out) ==
  /\ txn.run = <<>>
  /\ IF txn.open
     THEN /\ last = NoCall
          /\ Len(txn.on_commit) < MaxOnCommit
          /\ txn' = [txn EXCEPT !.on_commit = Append(@, m)]
          /\ UNCHANGED <<aws, settings, jobs, renditions, next_pk, vendor, starts, subs, hooks, last>>
     ELSE /\ transcode_video_call(m, out)
          /\ UNCHANGED <<txn, aws>>

\* The atomic block is left without an exception: the transaction commits
\* and its callbacks are handed over to be run.
atomic_commit ==
  /\ txn.open
  /\ last = NoCall
  /\ txn' = [open |-> FALSE, on_commit |-> <<>>, run |-> txn.on_commit]
  /\ last' = [op |-> "commit", registered |-> txn.on_commit]
  /\ UNCHANGED <<aws, settings, jobs, renditions, next_pk, vendor, starts, subs, hooks>>

\* The atomic block is left by an exception: the transaction is rolled
\* back and its callbacks are dropped.
atomic_rollback ==
  /\ txn.open
  /\ last = NoCall
  /\ txn' = NoTxn
  /\ last' = [op |-> "rollback", registered |-> txn.on_commit]
  /\ UNCHANGED <<aws, settings, jobs, renditions, next_pk, vendor, starts, subs, hooks>>

\* The next callback of a committed transaction runs: the lambda of line
\* 102 calls transcode_video(instance).
run_commit_hooks(out) ==
  /\ ~txn.open
  /\ txn.run # <<>>
  /\ transcode_video_call(Head(txn.run), out)
  /\ txn' = [txn EXCEPT !.run = IF last'.raised # {} THEN <<>> ELSE Tail(txn.run)]
  /\ UNCHANGED aws

NextTxn ==
  \/ atomic_enter
  \/ \E m \in Media, out \in StartOutcomes : post_save_transcode_video(m, out)
  \/ atomic_commit
  \/ atomic_rollback
  \/ \E out \in StartOutcomes : run_commit_hooks(out)
  \/ Returned

SpecTxn == Init /\ [][NextTxn]_vars

\* ================================================================ claims

\* ------------------------------------------------------ the AWS backend
\* What AWS does with one request of the backend: it answers, or botocore
\* raises.  ClientError is an error response of the service,
\* NoCredentialsError is raised when the client is created,
\* EndpointConnectionError when the service cannot be reached.
S3Replies == {"ok", "ClientError"}
IamReplies == {"Role", "ClientError", "NoCredentialsError", "EndpointConnectionError"}
JobReplies == {"Job", "ClientError"}
RoleArn == "arn:aws:iam::1:role/MediaConvert_Default_Role"
Raised(cls) == [raises |-> TRUE, cls |-> cls, msg |-> "message"]
Returning(v) == [raises |-> FALSE, value |-> v]

\* get_role_arn asking IAM at every call.
get_role_arn_uncached(service, reply) ==
  CASE reply = "Role" ->
         [service |-> [service EXCEPT !.role_arn = {RoleArn}],
          result |-> Returning(RoleArn), asked |-> TRUE]
    [] reply = "NoCredentialsError" ->
         [service |-> service, result |-> Raised("ImproperlyConfigured"), asked |-> FALSE]
    [] reply = "ClientError" ->
         [service |-> service, result |-> Raised("ImproperlyConfigured"), asked |-> TRUE]
    [] OTHER ->
         [service |-> service, result |-> Raised("botocore." \o reply), asked |-> TRUE]
\* MediaConvertService.get_role_arn on the instance service, IAM answering
\* with reply: the instance afterwards, what the call returns or raises,
\* and whether IAM was asked.
get_role_arn(service, reply) ==
  IF service.role_arn # {}
  THEN [service |-> service,
        result |-> Returning(CHOOSE arn \in service.role_arn : TRUE), asked |-> FALSE]
  ELSE CASE reply = "Role" ->
              [service |-> [service EXCEPT !.role_arn = {RoleArn}],
               result |-> Returning(RoleArn), asked |-> TRUE]
         [] reply = "NoCredentialsError" ->
              [service |-> service, result |-> Raised("ImproperlyConfigured"), asked |-> FALSE]
         [] reply = "ClientError" ->
              [service |-> service, result |-> Raised("ImproperlyConfigured"), asked |-> TRUE]
         [] OTHER ->
              [service |-> service, result |-> Raised("botocore." \o reply), asked |-> TRUE]

\* MediaConvertService.create_transcode_job
create_transcode_job(service, iam, job) ==
  LET role == get_role_arn(service, iam)
  IN IF role.result.raises THEN role
     ELSE [role EXCEPT !.result = IF job = "Job" THEN [raises |-> FALSE]
                                  ELSE Raised("aws.MediaConvertJobError")]

\* EMCTranscodingBackend.start_transcode on a backend whose MediaConvert
\* service is service, for a file that has to be uploaded.
start_transcode(service, s3, iam, job) ==
  IF s3 # "ok"
  THEN [service |-> service, result |-> Raised("aws.S3UploadError"), asked |-> FALSE]
  ELSE create_transcode_job(service, iam, job)

\* transcode_video(instance) with the AWS backend: backend_cls() makes a new
\* backend, and with it a new MediaConvertService, for the call.
transcode_video_aws(m, s3, iam, job) ==
  LET started == start_transcode(MediaConvertService, s3, iam, job)
  IN /\ settings.TRANSCODING_BACKEND = {EMCTranscodingBackend}
     /\ transcode_video_call(m, started.result)
     /\ IF last'.outcome = "started"
        THEN /\ aws.get_role < MaxGetRole
             /\ aws' = [aws EXCEPT !.get_role = IF started.asked THEN @ + 1 ELSE @,
                                    !.replies = [s3 |-> s3, iam |-> iam, job |-> job]]
        ELSE aws' = aws
     /\ UNCHANGED txn

\* get_role_arn() called on a MediaConvertService its owner keeps.
get_role_arn_call(iam) ==
  LET role == get_role_arn(aws.service, iam)
  IN /\ last = NoCall
     /\ aws.get_role < MaxGetRole
     /\ aws' = [aws EXCEPT !.service = role.service,
                            !.get_role = IF role.asked THEN @ + 1 ELSE @]
     /\ last' = [op |-> "get_role_arn", result |-> role.result, reply |-> iam]
     /\ UNCHANGED <<txn, settings, jobs, renditions, next_pk, vendor, starts, subs, hooks>>

NextAws ==
  \/ \E m \in Media, s3 \in S3Replies, iam \in IamReplies, job \in JobReplies :
       transcode_video_aws(m, s3, iam, job)
  \/ \E iam \in IamReplies : get_role_arn_call(iam)
  \/ Returned

SpecAws == Init /\ [][NextAws]_vars

\* -------------------------------------------- completions of any output
\* The durations a vendor reports for the one output of a job: none, null,
\* every whole number of milliseconds up to MaxDurationMs, and some longer.
LongDurations == {1001, 5000, 10500}
DurationInputs ==
  {{}, {JNull}} \cup {{JNum(n)} : n \in (0..MaxDurationMs) \cup LongDurations}
D_DURATION(dur) ==
  JObj(("outputFilePaths" :> JList(<<JStr(P_KEYED)>>)) @@ Field("durationInMs", dur))
DurationDeliveries ==
  {Delivery([headers |-> {ValidKey},
             body |-> Payload(Str(FullRef), Str(T_COMPLETE), {Group(<<D_DURATION(dur)>>)})],
            {ValidKey}) : dur \in DurationInputs}

\* The outputFilePaths a vendor reports: none, null, no path, the empty
\* path, a path that ends with the bucket, one that ends with the slash
\* after it, one that is no string.
P_SLASH == P_NOKEY \o <<"/">>
MissingPaths == {{}, {JNull}, {JList(<<>>)}, {JList(<<JStr(<<>>)>>)}, {JList(<<JStr(P_NOKEY)>>)}}
PathInputs == MissingPaths \cup {{JList(<<JStr(P_SLASH)>>)}, {JList(<<JNum(7)>>)}}
D_PATH(paths) ==
  JObj(Field("outputFilePaths", paths) @@ ("durationInMs" :> JNum(5000)))
PathDeliveries ==
  {Delivery([headers |-> {ValidKey},
             body |-> Payload(Str(FullRef), Str(T_COMPLETE), {Group(<<D_PATH(paths)>>)})],
            {ValidKey}) : paths \in PathInputs}

\* Bodies of another shape than the vendor's: JSON that is no object, a
\* detail that is no object, a jobId or a status that is no string, output
\* groups or output descriptors that are strings.
OddBodies ==
  {[valid_json |-> TRUE, json |-> j] : j \in {JNull, JList(<<>>), JStr(<<"x">>)}}
  \cup {[valid_json |-> TRUE, json |-> JObj([detail |-> v])] :
          v \in {JNull, JStr(<<"x">>), JList(<<>>)}}
  \cup {Payload({JNum(5)}, Str(T_PROGRESSING), {}),
        Payload(Str(FullRef), {JNum(5)}, {}),
        Payload(Str(FullRef), Str(T_COMPLETE), {JStr(<<"x">>)}),
        Payload(Str(FullRef), Str(T_COMPLETE), {Group(<<JStr(<<"x">>)>>)})}
OddDeliveries ==
  {Delivery([headers |-> {ValidKey}, body |-> body], {ValidKey}) : body \in OddBodies}

\* Media 1 is submitted, the vendor accepts and reports the completion of
\* the job with an output of any duration or any path; bodies of other
\* shapes arrive under the valid key.
NextDur ==
  \/ transcode_video(1, [raises |-> FALSE])
  \/ \E d \in DurationDeliveries \cup PathDeliveries \cup OddDeliveries : post(d)
  \/ Returned

SpecDur == Init /\ [][NextDur]_vars


\* The job row a delivery names, in the current job table ({} when none).
NamedJobs(d) ==
  IF ~d.parsed.returned /\ IsStr(d.parsed.locals.job_id)
  THEN JobsWithId(jobs, d.parsed.locals.job_id.str) ELSE {}

\* The deliveries that can reach the view under the configured key.
Incoming == {d \in Deliveries : d.expected_key = settings.WEBHOOK_API_KEY}
\* The deliveries the view can be called with in this state: none while the
\* previous handler's result is still with it.
Arriving == IF last = NoCall THEN Incoming ELSE {}

\* The last handler was a delivery answered 200 that named job row pk with
\* status token t.
LastAccepted(pk, t) ==
  /\ last.op = "post"
  /\ last.resp.status = 200
  /\ last.resp.body.job_id = JStr(jobs[pk].job_id)
  /\ last.resp.body.job_status = JStr(t)

\* C1: with submission triggers run one after another, a trigger for a media
\* that has a PENDING or PROGRESSING job creates no job row and makes no
\* start_transcode call.
C1_NoStartWhileActive ==
  [][(last'.op = "transcode_video" /\ ActiveJobs(jobs, last'.instance) # {})
       => (jobs' = jobs /\ next_pk' = next_pk /\ starts' = starts /\ vendor' = vendor)]_vars

\* A trigger was skipped because of an active job, after one start call.
C1_Witness ==
  /\ last.op = "transcode_video"
  /\ last.outcome = "skipped"
  /\ ActiveJobs(jobs, last.instance) # {}
  /\ Len(starts) = 1

\* C2: in every reachable state of the concurrent handlers each media has at
\* most one job whose status is PENDING or PROGRESSING.
C2_AtMostOneActiveJob ==
  \A m \in Media : Cardinality(ActiveJobs(jobs, m)) <= 1

\* C3: with deliveries handled one at a time, a delivery handled when a job
\* is COMPLETE leaves that job's row (status, metadata, updated_at) and its
\* renditions as they were, and the job has at most one rendition.
C3_CompleteIsFrozen ==
  [][\A pk \in DOMAIN jobs :
       (jobs[pk].status = COMPLETE /\ last'.op = "post")
         => /\ pk \in DOMAIN jobs'
            /\ jobs'[pk] = jobs[pk]
            /\ RenditionsOf(renditions', pk) = RenditionsOf(renditions, pk)
            /\ Cardinality(RenditionsOf(renditions', pk)) <= 1]_vars

\* A PROGRESSING delivery for a COMPLETE job that has its rendition was
\* answered 200.
C3_Witness ==
  \E pk \in DOMAIN jobs :
    /\ jobs[pk].status = COMPLETE
    /\ Cardinality(RenditionsOf(renditions, pk)) = 1
    /\ LastAccepted(pk, T_PROGRESSING)

\* C4: under concurrent handling of deliveries, at most one rendition is
\* ever created for a job.
C4_AtMostOneRendition ==
  \A pk \in DOMAIN jobs : Cardinality(RenditionsOf(renditions, pk)) <= 1

\* C5: under any interleaving of concurrent webhook handlers, a job whose
\* stored status is COMPLETE keeps that status.
C5_CompleteNeverOverwritten ==
  [][\A pk \in DOMAIN jobs :
       jobs[pk].status = COMPLETE => (pk \in DOMAIN jobs' /\ jobs'[pk].status = COMPLETE)]_vars

\* C6: FAILED is terminal: a delivery handled when a job is FAILED changes
\* neither the job's status nor its renditions.
C6_FailedIsTerminal ==
  [][\A pk \in DOMAIN jobs :
       (jobs[pk].status = FAILED /\ last'.op = "post")
         => /\ pk \in DOMAIN jobs'
            /\ jobs'[pk].status = FAILED
            /\ RenditionsOf(renditions', pk) = RenditionsOf(renditions, pk)]_vars

\* The delivery passed authentication, parsing and the required fields, it
\* names one job row and its status token is in the vendor's vocabulary.
Recognized(d) ==
  /\ Cardinality(NamedJobs(d)) = 1
  /\ IsOk(map_status(d.parsed.locals.job_status))

\* The payload's detail.outputGroupDetails is one of outs.
CarriesOneOf(d, outs) ==
  /\ "outputGroupDetails" \in DOMAIN d.parsed.locals.detail.obj
  /\ {d.parsed.locals.detail.obj["outputGroupDetails"]} \in outs

\* The payload carries a list of output descriptors:
\* detail.outputGroupDetails[0].outputDetails is there.
CarriesOutputDetails(d) == CarriesOneOf(d, EmptyOutputs \cup SomeOutputs)

\* C7 as stated: every recognized delivery for a job that is COMPLETE is
\* answered 200 and mutates nothing, also a COMPLETE token without output
\* descriptors.
C7_GuardBeforeOutputCheck ==
  \A d \in Arriving :
    (Recognized(d) /\ \A pk \in NamedJobs(d) : jobs[pk].status = COMPLETE)
      => LET r == post_result(d, jobs, renditions)
         IN r.resp.status = 200 /\ r.jobs = jobs /\ r.renditions = renditions

\* C7 amended: a recognized delivery for a job that is COMPLETE mutates
\* nothing; it is answered 200, except that a COMPLETE token whose payload
\* has no detail.outputGroupDetails[0].outputDetails is answered 400 (the
\* output descriptor check comes before the guard).
C7_CompleteSkipsMutation ==
  \A d \in Arriving :
    (Recognized(d) /\ \A pk \in NamedJobs(d) : jobs[pk].status = COMPLETE)
      => LET r == post_result(d, jobs, renditions)
             lacking == /\ map_status(d.parsed.locals.job_status).ok = COMPLETE
                        /\ ~CarriesOutputDetails(d)
         IN /\ r.jobs = jobs
            /\ r.renditions = renditions
            /\ r.resp.status = IF lacking THEN 400 ELSE 200

\* A COMPLETE delivery without output descriptors was answered 400 when
\* every job that has an external reference was COMPLETE.
C7_Witness ==
  /\ last.op = "post"
  /\ last.resp = JsonResponse([error |-> "COMPLETE status requires outputGroupDetails"], 400)
  /\ \E pk \in DOMAIN jobs : jobs[pk].job_id # <<>>
  /\ \A pk \in DOMAIN jobs : jobs[pk].job_id # <<>> => jobs[pk].status = COMPLETE

\* t is the vendor token v in some letter-casing.
IsCasingOf(t, v) ==
  /\ Len(t) = Len(v)
  /\ \A i \in 1..Len(v) :
       \/ t[i] = v[i]
       \/ \E k \in 1..26 : v[i] = UpperAlpha[k] /\ t[i] = LowerAlpha[k]

\* The internal status the vendor token v stands for.
InternalStatus(v) ==
  CASE v = T_PROGRESSING -> PROGRESSING
    [] v = T_COMPLETE -> COMPLETE
    [] v = T_ERROR -> FAILED

\* C8: a delivery naming a known job with a string status token: in any
\* letter-casing PROGRESSING, COMPLETE and ERROR are stored as PROGRESSING,
\* COMPLETE and FAILED with a 200 (the job not being COMPLETE, and a COMPLETE
\* token coming with output descriptors); any other token is answered 400
\* and changes nothing.
C8_StatusMapping ==
  \A d \in Arriving :
    (Cardinality(NamedJobs(d)) = 1 /\ IsStr(d.parsed.locals.job_status))
      => LET r == post_result(d, jobs, renditions)
             t == d.parsed.locals.job_status.str
             pk == CHOOSE p \in NamedJobs(d) : TRUE
         IN /\ \A v \in VendorTokens :
                 (/\ IsCasingOf(t, v)
                  /\ jobs[pk].status # COMPLETE
                  /\ v = T_COMPLETE => CarriesOneOf(d, SomeOutputs))
                   => (r.resp.status = 200 /\ r.jobs[pk].status = InternalStatus(v))
            /\ (\A v \in VendorTokens : ~IsCasingOf(t, v))
                   => (r.resp.status = 400 /\ r.jobs = jobs /\ r.renditions = renditions)

\* An ERROR token in mixed case was stored as FAILED, or a token outside the
\* vocabulary was answered 400.
C8_Witness ==
  \/ \E pk \in DOMAIN jobs :
       jobs[pk].status = FAILED /\ LastAccepted(pk, <<"e","r","r","O","R">>)
  \/ /\ last.op = "post"
     /\ last.resp.status = 400
     /\ "status" \in DOMAIN last.resp.body
     /\ last.resp.body.status = JStr(<<"P","E","N","D","I","N","G">>)

\* The key sent with the last request does not authenticate: no key is
\* configured, the header is missing or empty, or it differs from the
\* configured key.
Unauthenticated(headers) ==
  \/ settings.WEBHOOK_API_KEY = {}
  \/ headers \in {{}, {<<>>}}
  \/ headers # settings.WEBHOOK_API_KEY

\* C9: a request whose key is wrong or missing, or that arrives when no key
\* is configured, is answered 401 {"error": "Unauthorized"} whatever its
\* body, and no job or rendition is changed.
C9_UnauthorizedIsUniform ==
  [][(last'.op = "post" /\ Unauthenticated(last'.headers))
       => (last'.resp = Unauthorized /\ jobs' = jobs /\ renditions' = renditions)]_vars

\* C10: a submission whose start_transcode raised ImproperlyConfigured has
\* returned: the job row it created is gone and the error left
\* transcode_video.
C10_ConfigurationErrorRollsBack ==
  (/\ last.op = "transcode_video"
   /\ last.outcome = "started"
   /\ \E o \in last.start : o.raises /\ o.cls = "ImproperlyConfigured")
    => /\ last.pk \notin DOMAIN jobs
       /\ last.pk < next_pk
       /\ last.raised = {"ImproperlyConfigured"}

\* A second submission hit the configuration error after a first one had
\* left its job row.
C10_Witness ==
  /\ last.op = "transcode_video"
  /\ last.outcome = "started"
  /\ \E o \in last.start : o.raises /\ o.cls = "ImproperlyConfigured"
  /\ last.pk = 2
  /\ DOMAIN jobs = {1}

\* The submission that returned last made its start_transcode call, which
\* raised an exception of one of classes.
LastStartRaised(classes) ==
  /\ last.op = "transcode_video"
  /\ last.outcome = "started"
  /\ \E o \in last.start : o.raises /\ o.cls \in classes

\* The row of a job that failed at start_transcode with these diagnostics.
FailedRow(m, error_type, msg) ==
  [media |-> m, job_id |-> <<>>, status |-> FAILED, backend |-> "",
   metadata |-> JObj([error_type |-> error_type, error |-> msg]), updated_at |-> 2]

\* C11: a submission whose start_transcode raised TranscodingError has
\* returned: its job is FAILED, the metadata holds the class name and the
\* message, the row was saved once after its creation, and nothing was
\* raised to the caller.
C11_TranscodingErrorMarksFailed ==
  LastStartRaised({"base.TranscodingError"})
    => /\ last.pk \in DOMAIN jobs
       /\ jobs[last.pk] = FailedRow(last.instance, "TranscodingError", "message")
       /\ last.raised = {}

\* A second submission failed with TranscodingError after a first one had
\* started its job.
C11_Witness ==
  /\ LastStartRaised({"base.TranscodingError"})
  /\ last.pk = 2
  /\ 1 \in DOMAIN jobs
  /\ jobs[1].job_id # <<>>

\* C12: a submission whose start_transcode raised the AWS backend's
\* S3UploadError or MediaConvertJobError has returned: its job is FAILED
\* with error_type the name of that class, and nothing was raised to the
\* caller.
C12_VendorRejectionIsTranscodingError ==
  \A c \in {"aws.S3UploadError", "aws.MediaConvertJobError"} :
    LastStartRaised({c})
      => /\ last.pk \in DOMAIN jobs
         /\ jobs[last.pk] = FailedRow(last.instance,
                                      IF c = "aws.S3UploadError" THEN "S3UploadError"
                                      ELSE "MediaConvertJobError", "message")
         /\ last.raised = {}

\* C13: a submission whose start_transcode raised an error that is neither
\* a TranscodingError nor ImproperlyConfigured has returned: its job is
\* kept, FAILED, with error_type "unknown" and the message, and the error
\* was raised to the caller.
C13_UnexpectedErrorIsKeptAndRaised ==
  \A o \in StartOutcomes :
    (/\ o.raises
     /\ ~IsInstance(o, "base.TranscodingError")
     /\ ~IsInstance(o, "ImproperlyConfigured")
     /\ LastStartRaised({o.cls}))
      => /\ last.pk \in DOMAIN jobs
         /\ jobs[last.pk] = FailedRow(last.instance, "unknown", o.msg)
         /\ last.raised = {o.cls}

\* A submission's start_transcode raised ValueError.
C13_Witness ==
  /\ LastStartRaised({"ValueError"})
  /\ last.pk \in DOMAIN jobs
  /\ jobs[last.pk].status = FAILED

\* C14: a submission for a video media, with a backend configured and no
\* active job of that media, creates one job row and calls start_transcode
\* once with the media's file; when the call succeeds the row is PENDING
\* with the id the backend returned and the dotted path of the backend
\* class.
C14_SubmissionCreatesOneJob ==
  [][(/\ last'.op = "transcode_video"
      /\ last' # last
      /\ MediaTypeOf(last'.instance) = "video"
      /\ settings.TRANSCODING_BACKEND # {}
      /\ ActiveJobs(jobs, last'.instance) = {})
       => /\ next_pk' = next_pk + 1
          /\ DOMAIN jobs' \subseteq DOMAIN jobs \cup {next_pk}
          /\ \A p \in DOMAIN jobs : p \in DOMAIN jobs' /\ jobs'[p] = jobs[p]
          /\ starts' = Append(starts, FileOf(last'.instance))
          /\ last'.start = {[raises |-> FALSE]}
               => /\ vendor' = vendor + 1
                  /\ next_pk \in DOMAIN jobs'
                  /\ jobs'[next_pk] =
                       [media |-> last'.instance, job_id |-> ExternalJobId(vendor'),
                        status |-> PENDING,
                        backend |-> "wagtailmedia.transcoding_backends.aws.EMCTranscodingBackend",
                        metadata |-> EmptyBag, updated_at |-> 2]]_vars

\* A second job was started for the media after its first job had failed.
C14_Witness ==
  /\ last.op = "transcode_video"
  /\ last.outcome = "started"
  /\ last.start = {[raises |-> FALSE]}
  /\ last.pk = 2
  /\ jobs[2].status = PENDING
  /\ jobs[2].job_id # <<>>

\* C15: a submission for a media that is not a video, or made when no
\* backend is configured, returns at the test of line 33: no job row, no
\* backend instance, no start_transcode call, nothing raised.
C15_NotVideoOrNoBackendIsNoop ==
  [][(/\ last'.op = "transcode_video"
      /\ last' # last
      /\ (MediaTypeOf(last'.instance) # "video" \/ settings.TRANSCODING_BACKEND = {}))
       => /\ last'.outcome = "noop"
          /\ last'.raised = {}
          /\ jobs' = jobs /\ next_pk' = next_pk
          /\ starts' = starts /\ vendor' = vendor]_vars

\* An audio media was saved, with a backend configured, after a job had
\* been started for the video.
C15_Witness ==
  /\ last.op = "transcode_video"
  /\ last.outcome = "noop"
  /\ MediaTypeOf(last.instance) = "audio"
  /\ settings.TRANSCODING_BACKEND # {}
  /\ Len(starts) = 1

CompleteFor(d, pk) ==
  /\ NamedJobs(d) = {pk}
  /\ map_status(d.parsed.locals.job_status) = Ok(COMPLETE)

C18_CompleteHasOneRendition ==
  (\A w \in HookWorkers : hooks[w] = Idle)
    => \A pk \in DOMAIN jobs :
         jobs[pk].status = COMPLETE => Cardinality(RenditionsOf(renditions, pk)) = 1

\* The first output descriptor of the payload, as JSON.
FirstDescriptor(d) ==
  d.parsed.locals.detail.obj["outputGroupDetails"].list[1].obj["outputDetails"].list[1]

\* The key of the path P_KEYED: what follows scheme://bucket/.
K_KEYED == <<"m", "/", "t", ".", "m", "p", "4">>

\* C19: a COMPLETE delivery for a PENDING or PROGRESSING job whose first
\* output descriptor has the path s3://b/m/t.mp4 is answered 200, sets the
\* job to COMPLETE and adds one rendition, the job's only one: linked to the
\* job and its media, file m/t.mp4, width, height and bitrate those of the
\* first descriptor's videoDetails, whatever descriptors follow.
C19_CompleteCreatesRendition ==
  \A d \in Arriving : \A pk \in DOMAIN jobs :
    (/\ CompleteFor(d, pk)
     /\ jobs[pk].status \in ActiveStatuses
     /\ CarriesOneOf(d, {{Group(<<D_FULL>>)}, {Group(<<D_NOVIDEO, D_FULL>>)}}))
      => LET r == post_result(d, jobs, renditions)
             full == FirstDescriptor(d) = D_FULL
             row == r.renditions[Len(r.renditions)]
         IN /\ r.resp.status = 200
            /\ r.jobs[pk].status = COMPLETE
            /\ Len(r.renditions) = Len(renditions) + 1
            /\ SubSeq(r.renditions, 1, Len(renditions)) = renditions
            /\ RenditionsOf(r.renditions, pk) = {Len(r.renditions)}
            /\ row.media = jobs[pk].media
            /\ row.transcoding_job = pk
            /\ row.file = K_KEYED
            /\ row.width = IF full THEN JNum(1280) ELSE JNull
            /\ row.height = IF full THEN JNum(720) ELSE JNull
            /\ row.bitrate = IF full THEN JNum(2500000) ELSE JNull

\* A job was completed by a delivery with two output descriptors and has
\* one rendition, with the file key and without the second descriptor's
\* dimensions.
C19_Witness ==
  \E pk \in DOMAIN jobs :
    /\ LastAccepted(pk, T_COMPLETE)
    /\ jobs[pk].status = COMPLETE
    /\ jobs[pk].metadata = JList(<<D_NOVIDEO, D_FULL>>)
    /\ \E i \in 1..Len(renditions) :
         /\ RenditionsOf(renditions, pk) = {i}
         /\ renditions[i].file = K_KEYED
         /\ renditions[i].width = JNull

\* C20: a COMPLETE delivery for a PENDING or PROGRESSING job whose first
\* output descriptor has no videoDetails, or videoDetails with widthInPx
\* only, is answered 200 and adds a rendition whose absent fields are null,
\* with the width that is present and the duration of durationInMs.
C20_AbsentVideoDetailsAreNull ==
  \A d \in Arriving : \A pk \in DOMAIN jobs :
    (/\ CompleteFor(d, pk)
     /\ jobs[pk].status \in ActiveStatuses
     /\ CarriesOneOf(d, {{Group(<<D_NOVIDEO, D_FULL>>)}, {Group(<<D_PARTIAL>>)}}))
      => LET r == post_result(d, jobs, renditions)
             partial == FirstDescriptor(d) = D_PARTIAL
             row == r.renditions[Len(r.renditions)]
         IN /\ r.resp.status = 200
            /\ Len(r.renditions) = Len(renditions) + 1
            /\ row.transcoding_job = pk
            /\ row.width = IF partial THEN JNum(1920) ELSE JNull
            /\ row.height = JNull
            /\ row.bitrate = JNull
            /\ row.duration = FloatOfInt(5)

\* A delivery whose descriptor carries a width only was accepted: the
\* rendition has that width and null height and bitrate.
C20_Witness ==
  \E pk \in DOMAIN jobs :
    /\ LastAccepted(pk, T_COMPLETE)
    /\ \E i \in RenditionsOf(renditions, pk) :
         /\ renditions[i].width = JNum(1920)
         /\ renditions[i].height = JNull
         /\ renditions[i].bitrate = JNull

\* The durationInMs of the first output descriptor a job's metadata keeps:
\* {} when the key is absent.
DurationInMsOf(pk) ==
  LET first == jobs[pk].metadata.list[1].obj
  IN IF "durationInMs" \in DOMAIN first THEN {first["durationInMs"]} ELSE {}
IsPyInt(v) == "int" \in DOMAIN v
\* The renditions of jobs completed by a descriptor with a duration of n ms.
RenditionsLasting(n) ==
  {i \in 1..Len(renditions) :
     DurationInMsOf(renditions[i].transcoding_job) = {JNum(n)}}
RECURSIVE BitsValue(_)
\* The number whose binary digits are bits, most significant first.
BitsValue(bits) ==
  IF Len(bits) = 0 THEN 0
  ELSE 2 * BitsValue(SubSeq(bits, 1, Len(bits) - 1)) + bits[Len(bits)]
\* f * c for a float f and an int c > 0, computed exactly and rounded to the
\* nearest integer.
NearestProduct(f, c) ==
  LET p == ExactProduct(f, c)
      k == p.exp + 1
  IN IF k < 0 THEN 0
     ELSE BitsValue(SubSeq(p.bits, 1, k)) + p.bits[k + 1]
\* f * c = n exactly, for a float f and ints c, n > 0.
ProductIs(f, c, n) ==
  LET p == ExactProduct(f, c)
      k == p.exp + 1
  IN /\ k > 0
     /\ BitsValue(SubSeq(p.bits, 1, k)) = n
     /\ \A i \in (k + 1)..Len(p.bits) : p.bits[i] = 0
\* The float 10.5 = 1.0101b * 2^3.
TenAndAHalf == [mant |-> <<1, 0, 1, 0, 1>> \o Zeros(MantBits - 5), exp |-> 3]

\* C21 as stated: the duration of every rendition, multiplied by 1000 as
\* Python multiplies a float, equals the durationInMs of the first output
\* descriptor, and is 0 when durationInMs is absent, null or 0.
C21_DurationTimes1000IsMs ==
  \A i \in 1..Len(renditions) :
    LET ms == DurationInMsOf(renditions[i].transcoding_job)
        duration == renditions[i].duration
    IN IF ms \subseteq {JNull, JNum(0)} THEN duration = PyInt(0)
       ELSE \A v \in ms : /\ ~IsPyInt(duration)
                           /\ FloatMulInt(duration, 1000) = FloatOfInt(v.num)

\* C21 amended: the duration of every rendition is 0 when durationInMs is
\* absent, null or 0; otherwise it is a float whose product with 1000,
\* rounded to the nearest integer, is durationInMs, and the product is
\* durationInMs exactly when durationInMs is a multiple of 125 and only
\* then: 10500 gives 10.5 and 5000 gives 5.
C21_DurationIsNearestQuotient ==
  \A i \in 1..Len(renditions) :
    LET ms == DurationInMsOf(renditions[i].transcoding_job)
        duration == renditions[i].duration
    IN IF ms \subseteq {JNull, JNum(0)} THEN duration = PyInt(0)
       ELSE \A v \in ms :
              /\ ~IsPyInt(duration)
              /\ NearestProduct(duration, 1000) = v.num
              /\ ProductIs(duration, 1000, v.num) <=> (v.num % 125 = 0)
              /\ v.num = 10500 => duration = TenAndAHalf
              /\ v.num = 5000 => duration = FloatOfInt(5)

\* A completion reporting 1001 ms was accepted and its job has a rendition
\* whose duration times 1000 is not 1001.
C21_Witness ==
  \E i \in RenditionsLasting(1001) :
    /\ LastAccepted(renditions[i].transcoding_job, T_COMPLETE)
    /\ ~ProductIs(renditions[i].duration, 1000, 1001)

\* The completions with any path the view can be called with in this state.
ArrivingPaths ==
  IF last = NoCall
  THEN {d \in PathDeliveries : d.expected_key = settings.WEBHOOK_API_KEY}
  ELSE {}
\* Descriptors without a key to store: no outputFilePaths, null, no path,
\* the empty path, a path without a slash after the bucket.
PathlessDescriptors == {D_PATH(paths) : paths \in MissingPaths}

C23_NoUnhandledError ==
  (/\ last.op = "post"
   /\ settings.WEBHOOK_API_KEY # {}
   /\ last.headers = settings.WEBHOOK_API_KEY)
    => last.resp.status \in {200, 400, 404}

\* The jobId and status of the payload, as received.
ReceivedJobId(d) == d.parsed.locals.detail.obj["jobId"]
ReceivedStatus(d) == d.parsed.locals.detail.obj["status"]
\* The status received is a vendor token in some letter-casing.
IsVendorToken(d) ==
  /\ IsStr(ReceivedStatus(d))
  /\ \E v \in VendorTokens : IsCasingOf(ReceivedStatus(d).str, v)

\* C24: a delivery under the configured key that names a job and carries a
\* vendor token in any casing (with output descriptors when the token is
\* COMPLETE) is answered 200 with the jobId and the status token of the
\* payload, as received, whether the job was COMPLETE already or not; and no
\* other delivery is answered 200.
C24_AcceptedEchoesRequest ==
  \A d \in Arriving :
    LET r == post_result(d, jobs, renditions)
        accepted == /\ NamedJobs(d) # {}
                    /\ IsVendorToken(d)
                    /\ IsCasingOf(ReceivedStatus(d).str, T_COMPLETE)
                         => CarriesOutputDetails(d)
    IN /\ accepted => r.resp = [status |-> 200,
                                body |-> [job_id |-> ReceivedJobId(d),
                                          job_status |-> ReceivedStatus(d)]]
       /\ r.resp.status = 200 => accepted

\* A job that is COMPLETE was sent the token "errOR": the delivery changed
\* nothing and was answered 200 with "errOR".
C24_Witness ==
  \E pk \in DOMAIN jobs :
    /\ jobs[pk].status = COMPLETE
    /\ LastAccepted(pk, <<"e","r","r","O","R">>)

\* The jobs the vendor accepted and that no webhook has touched.
SubmittedPending == {pk \in DOMAIN jobs : jobs[pk].status = PENDING /\ jobs[pk].job_id # <<>>}

\* C25: with handlers run one after another, a job that is PENDING with an
\* external reference is left as it is by every step except a webhook for
\* its reference that is answered 200, and every submission trigger for its
\* media returns without a job row, a start call or a change to it.
C25_PendingUntilWebhook ==
  [][\A pk \in SubmittedPending :
       /\ \/ pk \in DOMAIN jobs' /\ jobs'[pk] = jobs[pk]
          \/ /\ last'.op = "post"
             /\ last'.resp.status = 200
             /\ last'.resp.body.job_id = JStr(jobs[pk].job_id)
       /\ (last'.op = "transcode_video" /\ last'.instance = jobs[pk].media)
            => /\ last'.outcome = "skipped"
               /\ jobs' = jobs
               /\ next_pk' = next_pk
               /\ starts' = starts]_vars

\* A job submitted at the second start call is still PENDING, and a trigger
\* for its media was skipped.
C25_Witness ==
  \E pk \in SubmittedPending :
    /\ last.op = "transcode_video"
    /\ last.instance = jobs[pk].media
    /\ last.outcome = "skipped"
    /\ Len(starts) >= 2

\* C26: the URL configuration imported under the settings in force has no
\* route when no webhook key is configured, or an empty one, and otherwise
\* exactly one route, aws-transcoding/ to the AWS transcoding webhook view.
C26_RouteOnlyWithSecret ==
  /\ settings.WEBHOOK_API_KEY = {} => urlpatterns(settings.WEBHOOK_API_KEY) = <<>>
  /\ urlpatterns({<<>>}) = <<>>
  /\ settings.WEBHOOK_API_KEY = {ValidKey} =>
       LET routes == urlpatterns(settings.WEBHOOK_API_KEY)
       IN /\ Len(routes) = 1
          /\ routes[1].route = "aws-transcoding/"
          /\ routes[1].view = "AWSTranscodingWebhookView"
          /\ routes[1].name = "aws_transcoding_webhook"

\* No key is configured, there is no route, and a request that reached the
\* view by another URL configuration was turned away.
C26_Witness ==
  /\ settings.WEBHOOK_API_KEY = {}
  /\ urlpatterns(settings.WEBHOOK_API_KEY) = <<>>
  /\ last.op = "post"
  /\ last.resp.status = 401

\* The members of the payload's detail ({} when absent), read off the body.
BodyDetail(d) ==
  IF d.request.body.valid_json /\ "detail" \in DOMAIN d.request.body.json.obj
  THEN {d.request.body.json.obj["detail"]} ELSE {}
BodyField(d, k) ==
  {v.obj[k] : v \in {w \in BodyDetail(d) : k \in DOMAIN w.obj}}
\* An error response: its status code and its message.
Rejection(code, error) == [status |-> code, error |-> error]
\* The first check of the list that the delivery d fails in this state, as
\* the rejection it earns; 200 when it fails none.
FirstFailingCheck(d) ==
  LET jobId == BodyField(d, "jobId")
      token == BodyField(d, "status")
      outs == BodyField(d, "outputGroupDetails")
  IN IF Unauthenticated(d.request.headers) THEN Rejection(401, "Unauthorized")
     ELSE IF ~d.request.body.valid_json THEN Rejection(400, "Invalid JSON")
     ELSE IF BodyDetail(d) = {} THEN Rejection(400, "Missing required field: detail")
     ELSE IF jobId \subseteq {JStr(<<>>)} \/ token \subseteq {JStr(<<>>)}
          THEN Rejection(400, "Missing required fields: job_id and status")
     ELSE IF \A v \in jobId : \A pk \in DOMAIN jobs : jobs[pk].job_id # v.str
          THEN Rejection(404, "Job not found")
     ELSE IF \A v \in token : \A t \in VendorTokens : ~IsCasingOf(v.str, t)
          THEN Rejection(400, "Invalid status")
     ELSE IF /\ \E v \in token : IsCasingOf(v.str, T_COMPLETE)
             /\ outs \notin EmptyOutputs \cup SomeOutputs
          THEN Rejection(400, "COMPLETE status requires outputGroupDetails")
     ELSE Rejection(200, "")

\* C27: a delivery whose key holds ASCII characters only is answered by the
\* first check it fails, in the order authentication (401), JSON (400),
\* detail and required fields (400), job lookup (404), status mapping (400),
\* output descriptors of a COMPLETE (400), and with 200 when it fails none.
C27_FirstFailingCheckDecides ==
  \A d \in Arriving :
    d.request.headers # {NonAsciiKey}
      => LET resp == post_result(d, jobs, renditions).resp
             expected == FirstFailingCheck(d)
         IN /\ resp.status = expected.status
            /\ expected.status # 200 => resp.body.error = expected.error

\* With a job waiting, a delivery under the valid key that names a job the
\* vendor never issued was answered 404.
C27_Witness ==
  /\ last.op = "post"
  /\ last.headers = {ValidKey}
  /\ last.resp.status = 404
  /\ \E pk \in DOMAIN jobs : jobs[pk].status = PENDING
  /\ last.resp.body.job_id = JStr(UnknownRef)

\* C28: with handlers run one after another, a delivery answered 401, 400
\* or 404 leaves every job row, updated_at included, and every rendition as
\* it was.
C28_RejectionChangesNothing ==
  [][(last'.op = "post" /\ last'.resp.status \in {400, 401, 404})
       => (jobs' = jobs /\ renditions' = renditions)]_vars

\* A delivery was answered 400 for its status token while a job was waiting
\* and another had its rendition.
C28_Witness ==
  /\ last.op = "post"
  /\ last.resp.status = 400
  /\ last.resp.body.error = "Invalid status"
  /\ \E pk \in DOMAIN jobs : jobs[pk].status \in ActiveStatuses
  /\ Len(renditions) > 0

\* The vendor token the status received is a casing of.
TokenOf(d) == CHOOSE v \in VendorTokens : IsCasingOf(ReceivedStatus(d).str, v)

\* C29: a delivery under the configured key for a job that is PENDING or
\* PROGRESSING, with a vendor token in any casing (and output descriptors
\* when it is COMPLETE), saves the job with the status the token maps to,
\* whatever the status was, and with the payload's outputDetails list as
\* metadata for COMPLETE and the empty bag for PROGRESSING and ERROR, also
\* when such a payload carries output descriptors; the other fields of the
\* row and the other rows stay.
C29_UpdateOverwritesStatusAndMetadata ==
  \A d \in Arriving : \A pk \in DOMAIN jobs :
    (/\ NamedJobs(d) = {pk}
     /\ jobs[pk].status \in ActiveStatuses
     /\ IsVendorToken(d)
     /\ TokenOf(d) = T_COMPLETE => CarriesOutputDetails(d))
      => LET r == post_result(d, jobs, renditions)
             outs == d.request.body.json.obj["detail"].obj["outputGroupDetails"]
         IN /\ r.resp.status = 200
            /\ DOMAIN r.jobs = DOMAIN jobs
            /\ \A p \in DOMAIN jobs \ {pk} : r.jobs[p] = jobs[p]
            /\ r.jobs[pk] =
                 [jobs[pk] EXCEPT
                    !.status = InternalStatus(TokenOf(d)),
                    !.metadata = IF TokenOf(d) = T_COMPLETE
                                 THEN outs.list[1].obj["outputDetails"]
                                 ELSE EmptyBag,
                    !.updated_at = @ + 1]

\* A job went from PENDING to PROGRESSING to COMPLETE by two deliveries and
\* keeps the descriptors of the second.
C29_Witness ==
  \E pk \in DOMAIN jobs :
    /\ LastAccepted(pk, T_COMPLETE)
    /\ jobs[pk].status = COMPLETE
    /\ jobs[pk].updated_at = 4
    /\ jobs[pk].metadata = JList(<<D_FULL>>)

\* C30: a delivery whose status is PROGRESSING or ERROR in any casing leaves
\* the rendition table as it was, in every state, whatever the job's status
\* and whether or not the payload carries output descriptors.
C30_OnlyCompleteCreatesRendition ==
  \A d \in Arriving :
    (/\ ~d.parsed.returned
     /\ IsVendorToken(d)
     /\ TokenOf(d) \in {T_PROGRESSING, T_ERROR})
      => post_result(d, jobs, renditions).renditions = renditions

\* A job took a PROGRESSING delivery twice and has no rendition.
C30_Witness ==
  \E pk \in DOMAIN jobs :
    /\ LastAccepted(pk, T_PROGRESSING)
    /\ jobs[pk].status = PROGRESSING
    /\ jobs[pk].updated_at = 4
    /\ RenditionsOf(renditions, pk) = {}

\* The last start_transcode of the AWS backend uploaded the file and then
\* got one of replies from IAM.
RoleLookupGot(replies) ==
  /\ last'.op = "transcode_video"
  /\ last'.outcome = "started"
  /\ aws'.replies.s3 = "ok"
  /\ aws'.replies.iam \in replies
\* The call created no lasting row and the error left it.
RolledBackWith(cls) ==
  /\ jobs' = jobs
  /\ next_pk' = next_pk + 1
  /\ last'.raised = {cls}
\* get_role_arn on an instance that holds the ARN returns it, asks nobody
\* and leaves the instance as it is; on one that does not, a Role reply is
\* returned and kept.
RoleArnIsCached ==
  last'.op = "get_role_arn"
    => IF aws.service.role_arn # {}
       THEN /\ last'.result = Returning(RoleArn)
            /\ aws'.get_role = aws.get_role
            /\ aws'.service = aws.service
       ELSE last'.reply = "Role"
              => /\ last'.result = Returning(RoleArn)
                 /\ aws'.service.role_arn = {RoleArn}
                 /\ aws'.get_role = aws.get_role + 1

ArrivingWithoutJobId ==
  IF last = NoCall
  THEN {d \in RaceDeliveries : /\ d.expected_key = settings.WEBHOOK_API_KEY
                               /\ BodyField(d, "jobId") \subseteq {JNull, JStr(<<>>)}}
  ELSE {}
\* The job rows without an external reference.
Unreferenced == {pk \in DOMAIN jobs : jobs[pk].job_id = <<>>}

\* C32: a delivery whose jobId is missing, null or empty is answered 400 for
\* its missing fields and changes nothing, also while rows without a
\* reference exist; and no delivery at all changes a row without a
\* reference or gives it a rendition.
C32_UnreferencedJobsAreOutOfReach ==
  [][/\ \A d \in ArrivingWithoutJobId :
          LET r == post_result(d, jobs, renditions)
          IN /\ r.resp = JsonResponse(
                           [error |-> "Missing required fields: job_id and status"], 400)
             /\ r.jobs = jobs
             /\ r.renditions = renditions
     /\ (last = NoCall /\ last'.op = "post")
          => \A pk \in Unreferenced :
               /\ pk \in DOMAIN jobs'
               /\ jobs'[pk] = jobs[pk]
               /\ RenditionsOf(renditions', pk) = {}]_vars

\* A delivery with an empty jobId was answered 400 while the job a
\* submission had just created was waiting for the vendor's answer.
C32_Witness ==
  /\ last.op = "post"
  /\ last.resp.status = 400
  /\ subs[1].pc = "finish"
  /\ \E pk \in Unreferenced : jobs[pk].status = PENDING
  /\ \E pk \in Unreferenced : jobs[pk].status = FAILED

\* The rows a submission has created and not yet finished with.
InSubmission ==
  {subs[w].pk : w \in {v \in SubWorkers : subs[v].pc \in {"start", "finish"}}}

\* C33: once transcode_video has returned or raised, the row it created is
\* PENDING with a reference, FAILED, or deleted; a PENDING row without a
\* reference belongs to a submission that has not finished.
C33_FinishedSubmissionLeavesNoBareJob ==
  /\ \A pk \in Unreferenced : jobs[pk].status = PENDING => pk \in InSubmission
  /\ (last.op = "transcode_video" /\ last.outcome = "started")
       => \/ last.pk \notin DOMAIN jobs
          \/ jobs[last.pk].status = FAILED
          \/ jobs[last.pk].status = PENDING /\ jobs[last.pk].job_id # <<>>

\* A submission has just left its row PENDING with a reference, after an
\* earlier one had its row deleted and deliveries had been handled.
C33_Witness ==
  /\ last.op = "transcode_video"
  /\ last.outcome = "started"
  /\ last.pk \in DOMAIN jobs
  /\ jobs[last.pk].status = PENDING
  /\ jobs[last.pk].job_id # <<>>
  /\ \E pk \in 1..(next_pk - 1) : pk \notin DOMAIN jobs

\* The deliveries for the external job the vendor has accepted from the
\* submission in progress, whose reference is not yet saved on its row.
Overtaking ==
  IF last = NoCall /\ subs[1].pc = "finish" /\ ~subs[1].out.raises
  THEN {d \in RaceDeliveries : /\ d.expected_key = settings.WEBHOOK_API_KEY
                               /\ BodyField(d, "jobId") = {JStr(subs[1].job_ref)}}
  ELSE {}

\* C34: a delivery for the external job of a submission that has called
\* start_transcode and not yet saved the reference is answered 404 and
\* changes neither jobs nor renditions; the submission then saves its row
\* PENDING with the reference.
C34_OvertakingDeliveryIsLost ==
  [][/\ \A d \in Overtaking :
          LET r == post_result(d, jobs, renditions)
          IN /\ r.resp = JsonResponse([error |-> "Job not found",
                                       job_id |-> JStr(subs[1].job_ref)], 404)
             /\ r.jobs = jobs
             /\ r.renditions = renditions
     /\ (subs[1].pc = "finish" /\ ~subs[1].out.raises /\ subs'[1].pc = "idle")
          => /\ jobs'[subs[1].pk].status = PENDING
             /\ jobs'[subs[1].pk].job_id = subs[1].job_ref
             /\ renditions' = renditions]_vars

\* The delivery for the accepted job was answered 404 while the submission
\* stood between start_transcode and the save of the reference.
C34_Witness ==
  /\ last.op = "post"
  /\ last.resp.status = 404
  /\ subs[1].pc = "finish"
  /\ ~subs[1].out.raises
  /\ last.resp.body.job_id = JStr(subs[1].job_ref)
  /\ jobs[subs[1].pk].status = PENDING
  /\ jobs[subs[1].pk].job_id = <<>>

\* The jobs of media m.
JobsOf(m) == {pk \in DOMAIN jobs : jobs[pk].media = m}
\* The video media the configured backend has no unfinished job for.
Resubmittable ==
  {m \in Media : /\ MediaTypeOf(m) = "video"
                 /\ settings.TRANSCODING_BACKEND # {}
                 /\ \A pk \in JobsOf(m) : jobs[pk].status \in {COMPLETE, FAILED}}

\* C35: transcode_video called for a video media whose jobs are all
\* COMPLETE or FAILED creates one new row for it and calls start_transcode
\* once more with its file; when the call returned the row is PENDING, and
\* the jobs the media had are kept as they were.
C35_FinishedMediaIsSubmittedAgain ==
  [][\A m \in Resubmittable :
       (last = NoCall /\ last'.op = "transcode_video" /\ last'.instance = m)
         => /\ last'.outcome = "started"
            /\ last'.pk = next_pk
            /\ next_pk' = next_pk + 1
            /\ starts' = Append(starts, FileOf(m))
            /\ DOMAIN jobs' \subseteq DOMAIN jobs \cup {next_pk}
            /\ \A pk \in DOMAIN jobs : pk \in DOMAIN jobs' /\ jobs'[pk] = jobs[pk]
            /\ next_pk \in DOMAIN jobs'
                 => /\ jobs'[next_pk].media = m
                    /\ jobs'[next_pk].status =
                         IF \E out \in last'.start : out.raises THEN FAILED ELSE PENDING]_vars

\* A media with two COMPLETE jobs and a rendition of each.
C35_Witness ==
  \E m \in Media :
    /\ Cardinality({pk \in JobsOf(m) : jobs[pk].status = COMPLETE}) >= 2
    /\ \A pk \in JobsOf(m) : RenditionsOf(renditions, pk) # {}
    /\ Len(starts) >= 2

\* C36: with handlers run one after another, the job of every rendition
\* exists and is COMPLETE, and the rendition's media is that job's media.
C36_RenditionsBelongToCompleteJobs ==
  \A i \in 1..Len(renditions) :
    /\ renditions[i].transcoding_job \in DOMAIN jobs
    /\ jobs[renditions[i].transcoding_job].status = COMPLETE
    /\ renditions[i].media = jobs[renditions[i].transcoding_job].media

\* The job of a rendition, written several times before it completed, has
\* since been named by a PROGRESSING delivery that was answered 200.
C36_Witness ==
  \E pk \in DOMAIN jobs :
    /\ RenditionsOf(renditions, pk) # {}
    /\ jobs[pk].updated_at >= 3
    /\ LastAccepted(pk, T_PROGRESSING)

\* C37: a delivery changes no job but the one its jobId names, keeps every
\* rendition there is, and adds renditions only for the named job.
C37_OtherJobsAreUntouched ==
  \A d \in Arriving :
    LET r == post_result(d, jobs, renditions)
    IN /\ DOMAIN r.jobs = DOMAIN jobs
       /\ \A pk \in DOMAIN jobs \ NamedJobs(d) : r.jobs[pk] = jobs[pk]
       /\ Len(r.renditions) >= Len(renditions)
       /\ \A i \in 1..Len(renditions) : r.renditions[i] = renditions[i]
       /\ \A i \in (Len(renditions) + 1)..Len(r.renditions) :
            r.renditions[i].transcoding_job \in NamedJobs(d)

\* A delivery has completed one job of a media and given it a rendition
\* while another job of the same media, known to the vendor, stays FAILED
\* without one.
C37_Witness ==
  \E a, b \in DOMAIN jobs :
    /\ a # b
    /\ LastAccepted(a, T_COMPLETE)
    /\ jobs[a].status = COMPLETE
    /\ RenditionsOf(renditions, a) # {}
    /\ jobs[b].media = jobs[a].media
    /\ jobs[b].job_id # <<>>
    /\ jobs[b].status = FAILED
    /\ RenditionsOf(renditions, b) = {}

====
